---- MODULE Spec2Model ----
(***************************************************************************)
(* A model of version-crawler: the lockfile stream extractors, the         *)
(* manifest parser, the version collector and the repository scanner.      *)
(* Text is modelled as TLA+ strings, one character per position; the       *)
(* regular expressions of the source are written out as matchers over      *)
(* those strings.                                                          *)
(***************************************************************************)
EXTENDS Integers, Sequences, FiniteSets, TLC

VARIABLES
    mode,            \* which component this behaviour exercises
    kind,            \* lockfile grammar selected by parseLockfile
    packageName,     \* the target package
    text,            \* the whole byte sequence of the stream (never changes)
    rest,            \* the part of the stream not yet delivered by read()
    reader,          \* "none" | "held" | "released"
    releases,        \* number of reader.releaseLock() calls
    readsAfterRelease, \* number of reader.read() calls made after a release
    buffer,          \* the trailing partial line kept across reads
    lineNumber,
    inPackageBlock,
    bracketDepth,
    lines,           \* lines of the current chunk still to be processed
    line,            \* the line being processed when the generator is suspended
    phase,           \* where the loop body resumes after a yield
    nextOff,         \* offset in text of the first character not yet split off
    pc,              \* position of the generator
    out,             \* the matches yielded so far, in order
    outAt,           \* for each match, the offset in text of the line it was found on
    manifest,        \* the manifest text handed to parseManifest
    manifestPath,    \* the path of the manifest being parsed
    records,         \* the DependencySource records returned
    threw,           \* an error left the operation
    branchParam,     \* scanRepository's optional branch argument ("" = none)
    actualBranch,    \* the branch the scan resolved
    commitSha,       \* the commit the scan reads
    tree,            \* the items of the git tree of that commit
    manifestFiles,   \* the manifest paths discovered, in tree order
    lockfiles,       \* the lockfile paths discovered, in tree order
    fileIndex,       \* the position of the for loop over the current list
    scanSources,     \* scanRepository's sources array
    calls,           \* the calls made on the GitHub client, in order
    served,          \* what the remote answered for each file fetched
    versions,        \* VersionCollector.versions: key -> set, in insertion order
    ops,             \* the add calls made since construction or the last clear
    opCount,         \* the number of calls made on the collector
    cache,           \* LRUCache.cache: the entries in the order of the Map
    maxSize,         \* the constructor's first argument, then this.maxSize
    maxAgeMs,        \* the constructor's second argument, then this.maxAgeMs
    now,             \* what Date.now() returns
    result,          \* the last call on the cache and what it returned
    lastUse,         \* for each key, the number of the call that last used it
    setAt,           \* for each key, the time of the last set
    cacheOps,        \* the number of calls made on the cache
    requests,        \* the path parameters of the requests, in order
    generated,       \* for each request handled, its cache key ("" if rejected)
    handlers,        \* for each request of the crawl route, where its handler is
    completed        \* the scans that completed: path parameters and response

lockVars == <<kind, text, rest, reader, releases,
              readsAfterRelease, buffer, lineNumber, inPackageBlock,
              bracketDepth, lines, line, phase, nextOff, out, outAt>>

manifestVars == <<manifest, manifestPath, records, threw>>

scanVars == <<branchParam, actualBranch, commitSha, tree, manifestFiles,
              lockfiles, fileIndex, scanSources, calls, served>>

collectorVars == <<versions, ops, opCount>>

cacheVars == <<cache, maxSize, maxAgeMs, now, result, lastUse, setAt, cacheOps>>

keyVars == <<requests, generated>>

routeVars == <<handlers, completed>>

vars == <<mode, packageName, pc, lockVars, manifestVars, scanVars,
          collectorVars, cacheVars, keyVars, routeVars>>

\* what the lockfile extractors leave alone
notLock == <<manifestVars, scanVars, collectorVars, cacheVars, keyVars,
    routeVars>>

\* what the manifest parser leaves alone
notManifest == <<lockVars, scanVars, collectorVars, cacheVars, keyVars,
    routeVars>>

\* what the repository scanner leaves alone
notScan == <<lockVars, manifestVars, collectorVars, cacheVars, keyVars,
    routeVars>>

\* what the version collector leaves alone
notCollector == <<packageName, lockVars, manifestVars, scanVars, cacheVars, keyVars,
    routeVars>>

\* what the cache leaves alone
notCache == <<packageName, lockVars, manifestVars, scanVars, collectorVars, keyVars,
    routeVars>>

-----------------------------------------------------------------------------
(* Strings *)

CharAt(s, i) == SubSeq(s, i, i)

StartsWithAt(s, p, i) ==
    /\ i >= 1
    /\ i + Len(p) - 1 <= Len(s)
    /\ SubSeq(s, i, i + Len(p) - 1) = p

startsWith(s, p) == StartsWithAt(s, p, 1)

endsWith(s, p) == StartsWithAt(s, p, Len(s) - Len(p) + 1)

includes(s, p) == \E i \in 1..(Len(s) - Len(p) + 1) : StartsWithAt(s, p, i)

\* String.prototype.indexOf, 1-based; 0 when p does not occur
indexOf(s, p) ==
    IF includes(s, p)
    THEN CHOOSE i \in 1..(Len(s) - Len(p) + 1) :
            /\ StartsWithAt(s, p, i)
            /\ \A j \in 1..(i - 1) : ~StartsWithAt(s, p, j)
    ELSE 0

\* the regular expression class \s, on the characters the inputs use
IsSpace(c) == c \in {" ", "\t", "\r", "\n"}

IsDigit(c) == c \in {"0", "1", "2", "3", "4", "5", "6", "7", "8", "9"}

RECURSIVE SkipSpaces(_, _)
SkipSpaces(s, i) ==
    IF i <= Len(s) /\ IsSpace(CharAt(s, i)) THEN SkipSpaces(s, i + 1) ELSE i

RECURSIVE SkipDigits(_, _)
SkipDigits(s, i) ==
    IF i <= Len(s) /\ IsDigit(CharAt(s, i)) THEN SkipDigits(s, i + 1) ELSE i

\* the first position >= i holding a character of stop, or Len(s) + 1
RECURSIVE SkipUntil(_, _, _)
SkipUntil(s, i, stop) ==
    IF i <= Len(s) /\ CharAt(s, i) \notin stop THEN SkipUntil(s, i + 1, stop) ELSE i

RECURSIVE SkipSpacesBack(_, _)
SkipSpacesBack(s, i) ==
    IF i >= 1 /\ IsSpace(CharAt(s, i)) THEN SkipSpacesBack(s, i - 1) ELSE i

\* String.prototype.trim
trim(s) ==
    LET a == SkipSpaces(s, 1)
        b == SkipSpacesBack(s, Len(s))
    IN IF a > b THEN "" ELSE SubSeq(s, a, b)

\* String.prototype.split('\n')
RECURSIVE split(_)
split(s) ==
    LET i == indexOf(s, "\n")
    IN IF i = 0 THEN <<s>>
       ELSE <<SubSeq(s, 1, i - 1)>> \o split(SubSeq(s, i + 1, Len(s)))

\* the number of occurrences of character c in s
RECURSIVE CountChar(_, _)
CountChar(s, c) ==
    IF s = "" THEN 0
    ELSE (IF Head(s) = c THEN 1 ELSE 0) + CountChar(Tail(s), c)

NoMatch == [found |-> FALSE, v |-> ""]

-----------------------------------------------------------------------------
(* The regular expressions of the lockfile extractors *)

\* /"version":\s*"([^"]+)"/ tried at position i
NpmVersionAt(s, i) ==
    IF ~StartsWithAt(s, "\"version\":", i) THEN NoMatch
    ELSE LET j == SkipSpaces(s, i + 10)
             k == SkipUntil(s, j + 1, {"\""})
         IN IF j <= Len(s) /\ CharAt(s, j) = "\"" /\ k > j + 1 /\ k <= Len(s)
            THEN [found |-> TRUE, v |-> SubSeq(s, j + 1, k - 1)]
            ELSE NoMatch

\* the leftmost match at or after position i
RECURSIVE NpmVersionMatchFrom(_, _)
NpmVersionMatchFrom(s, i) ==
    IF i > Len(s) THEN NoMatch
    ELSE IF NpmVersionAt(s, i).found THEN NpmVersionAt(s, i)
    ELSE NpmVersionMatchFrom(s, i + 1)

NpmVersionMatch(s) == NpmVersionMatchFrom(s, 1)

\* /^\s+version\s+"([^"]+)"/
YarnVersionMatch(s) ==
    LET a == SkipSpaces(s, 1)
        b == SkipSpaces(s, a + 7)
        k == SkipUntil(s, b + 1, {"\""})
    IN IF /\ a > 1
          /\ StartsWithAt(s, "version", a)
          /\ b > a + 7
          /\ b <= Len(s) /\ CharAt(s, b) = "\""
          /\ k > b + 1 /\ k <= Len(s)
       THEN [found |-> TRUE, v |-> SubSeq(s, b + 1, k - 1)]
       ELSE NoMatch

\* the package name spliced into a RegExp source: every character stands for
\* itself, except "." which matches any character (the slashes are escaped
\* by the source and so stay literal)
PkgPatternAt(s, p, i) ==
    /\ i >= 1
    /\ i + Len(p) - 1 <= Len(s)
    /\ \A n \in 1..Len(p) :
          CharAt(p, n) = "." \/ CharAt(p, n) = CharAt(s, i + n - 1)

\* new RegExp(`^\\s+[\\/']${pkg}[\\/']([^:'"\\s]+)`)
PnpmPathMatch(s, p) ==
    LET a == SkipSpaces(s, 1)
        c == a + 1 + Len(p)
        k == SkipUntil(s, c + 1, {":", "'", "\"", " ", "\t", "\r", "\n"})
    IN IF /\ a > 1
          /\ a <= Len(s) /\ CharAt(s, a) \in {"/", "'"}
          /\ PkgPatternAt(s, p, a + 1)
          /\ c <= Len(s) /\ CharAt(s, c) \in {"/", "'"}
          /\ k > c + 1
       THEN [found |-> TRUE, v |-> SubSeq(s, c + 1, k - 1)]
       ELSE NoMatch

\* /^(\d+\.\d+\.\d+ ... at position i: the position after the third number,
\* or 0 when three dot-separated numbers do not start at i
ThreeNumbersEnd(s, i) ==
    LET a == SkipDigits(s, i)
        b == SkipDigits(s, a + 1)
        c == SkipDigits(s, b + 1)
    IN IF /\ a > i /\ a <= Len(s) /\ CharAt(s, a) = "."
          /\ b > a + 1 /\ b <= Len(s) /\ CharAt(s, b) = "."
          /\ c > b + 1
       THEN c ELSE 0

\* match[1].replace(/^\//, '').match(/^(\d+\.\d+\.\d+[^\/]*)/)
PnpmVersionOfPath(part) ==
    LET versionPart == IF startsWith(part, "/") THEN Tail(part) ELSE part
        c == ThreeNumbersEnd(versionPart, 1)
        k == SkipUntil(versionPart, c, {"/"})
    IN IF c = 0 THEN NoMatch
       ELSE [found |-> TRUE, v |-> SubSeq(versionPart, 1, k - 1)]

\* /version:\s*([^\s]+)/ tried at position i
PnpmSpecAt(s, i) ==
    IF ~StartsWithAt(s, "version:", i) THEN NoMatch
    ELSE LET j == SkipSpaces(s, i + 8)
             k == SkipUntil(s, j, {" ", "\t", "\r", "\n"})
         IN IF k > j THEN [found |-> TRUE, v |-> SubSeq(s, j, k - 1)]
            ELSE NoMatch

\* the leftmost match at or after position i
RECURSIVE PnpmSpecMatchFrom(_, _)
PnpmSpecMatchFrom(s, i) ==
    IF i > Len(s) THEN NoMatch
    ELSE IF PnpmSpecAt(s, i).found THEN PnpmSpecAt(s, i)
    ELSE PnpmSpecMatchFrom(s, i + 1)

PnpmSpecMatch(s) == PnpmSpecMatchFrom(s, 1)

\* /["']?([0-9]+\.[0-9]+\.[0-9]+[^"'\s]*)["']?/ with the group starting at i
BunVersionAt(s, i) ==
    LET c == ThreeNumbersEnd(s, i)
        k == SkipUntil(s, c, {"\"", "'", " ", "\t", "\r", "\n"})
    IN IF c = 0 THEN NoMatch
       ELSE [found |-> TRUE, v |-> SubSeq(s, i, k - 1)]

\* the leftmost match at or after position i
RECURSIVE BunVersionMatchFrom(_, _)
BunVersionMatchFrom(s, i) ==
    IF i > Len(s) THEN NoMatch
    ELSE IF BunVersionAt(s, i).found THEN BunVersionAt(s, i)
    ELSE BunVersionMatchFrom(s, i + 1)

BunVersionMatch(s) == BunVersionMatchFrom(s, 1)

-----------------------------------------------------------------------------
(* The lockfile stream extractors (async generators).  A generator runs     *)
(* from one suspension point to the next: an await of reader.read() or a    *)
(* yield.  S is the record of its local variables; S.phase is the place in  *)
(* the loop body at which the current line is resumed, S.y says that the    *)
(* run stopped at a yield of {version: S.version, lineNumber: S.lineNumber  *)
(* + S.plus}.                                                               *)

Kinds == {"npm", "yarn", "pnpm", "bun"}

\* let lineNumber = 1 (npm), let lineNumber = 0 (the other three)
InitialLineNumber(k) == IF k = "npm" THEN 1 ELSE 0

Yield(S, version, resumeAt) ==
    [S EXCEPT !.y = TRUE, !.version = version, !.phase = resumeAt]

LineDone(S) == [S EXCEPT !.y = FALSE, !.phase = "top"]

\* a block that is left open when its brackets close
NpmStaysOpen(S) == LineDone(S)

\* findInNpmLock, after the yield: exit the block when the brackets close
NpmExit(S) ==
    LineDone([S EXCEPT !.inPackageBlock =
                 ~(S.bracketDepth <= 0 /\ includes(S.line, "}"))])

\* findInNpmLock, the body of the for loop up to the yield
NpmTop(p, S) ==
    LET header == \/ includes(S.line, "\"node_modules/" \o p \o "\"")
                  \/ includes(S.line, "\"" \o p \o "\"")
        inBlock == S.inPackageBlock \/ header
        depth0 == IF header THEN 0 ELSE S.bracketDepth
        depth1 == depth0 + CountChar(S.line, "{") - CountChar(S.line, "}")
        versionMatch == NpmVersionMatch(S.line)
    IN IF ~inBlock THEN LineDone(S)
       ELSE LET T == [S EXCEPT !.inPackageBlock = TRUE, !.bracketDepth = depth1]
            IN IF versionMatch.found
               THEN Yield(T, versionMatch.v, "npmExit")
               ELSE NpmExit(T)

\* findInYarnV1Lock, the exit test at the end of the in-block branch
YarnExit(S) ==
    LineDone([S EXCEPT !.inPackageBlock =
                 IF \/ trim(S.line) = ""
                    \/ (~startsWith(S.line, " ") /\ ~startsWith(S.line, "\t"))
                 THEN FALSE ELSE S.inPackageBlock])

\* findInYarnV1Lock, resumed after the yield: inPackageBlock = false
YarnAfterYield(S) == YarnExit([S EXCEPT !.inPackageBlock = FALSE])

\* findInYarnV1Lock, the body of the for loop up to the yield
YarnTop(p, S) ==
    LET header == \/ startsWith(S.line, p \o "@")
                  \/ includes(S.line, "\"" \o p \o "@")
        inBlock == S.inPackageBlock \/ header
        versionMatch == YarnVersionMatch(S.line)
    IN IF ~inBlock THEN LineDone(S)
       ELSE LET T == [S EXCEPT !.inPackageBlock = TRUE]
            IN IF versionMatch.found
               THEN Yield(T, versionMatch.v, "yarnAfterYield")
               ELSE YarnExit(T)

\* findInPnpmLock, the specifier strategy (second half of the loop body)
PnpmSpec(p, S) ==
    LET specMatch == PnpmSpecMatch(S.line)
    IN IF includes(S.line, p) /\ specMatch.found
       THEN Yield(S, specMatch.v, "pnpmDone")
       ELSE LineDone(S)

\* findInPnpmLock, the path strategy (first half of the loop body)
PnpmTop(p, S) ==
    LET match == PnpmPathMatch(S.line, p)
        versionMatch == PnpmVersionOfPath(match.v)
    IN IF match.found /\ versionMatch.found
       THEN Yield(S, versionMatch.v, "pnpmSpec")
       ELSE PnpmSpec(p, S)

\* findInBunLock, the body of the for loop
BunTop(p, S) ==
    LET versionMatch == BunVersionMatch(S.line)
    IN IF includes(S.line, p) /\ versionMatch.found
       THEN Yield(S, versionMatch.v, "bunDone")
       ELSE LineDone(S)

\* one line of the for loop, from S.phase to the next yield or to its end
LineStep(k, p, S) ==
    CASE S.phase = "top" /\ k = "npm" -> NpmTop(p, S)
      [] S.phase = "top" /\ k = "yarn" -> YarnTop(p, S)
      [] S.phase = "top" /\ k = "pnpm" -> PnpmTop(p, S)
      [] S.phase = "top" /\ k = "bun" -> BunTop(p, S)
      [] S.phase = "npmExit" -> NpmExit(S)
      [] S.phase = "yarnAfterYield" -> YarnAfterYield(S)
      [] S.phase = "pnpmSpec" -> PnpmSpec(p, S)
      [] S.phase \in {"pnpmDone", "bunDone"} -> LineDone(S)

\* for (const line of lines) { lineNumber++ ... }: runs to the next yield,
\* or to the end of the lines of this chunk (S.y = FALSE)
RECURSIVE RunLoop(_, _, _)
RunLoop(k, p, S) ==
    IF S.phase = "top" /\ S.lines = <<>> THEN [S EXCEPT !.y = FALSE]
    ELSE LET T == IF S.phase = "top"
                  THEN [S EXCEPT !.line = Head(S.lines),
                                 !.lines = Tail(S.lines),
                                 !.lineNumber = S.lineNumber + 1,
                                 !.lineOff = S.nextOff,
                                 !.nextOff = S.nextOff + Len(Head(S.lines)) + 1]
                  ELSE S
             R == LineStep(k, p, T)
         IN IF R.y THEN R ELSE RunLoop(k, p, R)

\* a read that forgets the partial line left by the read before it
TakeChunkWithoutBuffer(S, chunk) ==
    LET all == split(chunk)
    IN [S EXCEPT !.buffer = all[Len(all)],
                 !.lines = SubSeq(all, 1, Len(all) - 1)]

\* buffer += chunk; lines = buffer.split('\n'); buffer = lines.pop() || ''
TakeChunk(S, chunk) ==
    LET all == split(S.buffer \o chunk)
    IN [S EXCEPT !.buffer = all[Len(all)],
                 !.lines = SubSeq(all, 1, Len(all) - 1)]

\* after the while loop.  npm: "Process any remaining buffer"; the other
\* three go straight to the finally block
Remaining(k, S) ==
    LET versionMatch == NpmVersionMatch(S.buffer)
    IN IF k = "npm" /\ S.buffer # "" /\ S.inPackageBlock /\ versionMatch.found
       THEN [Yield(S, versionMatch.v, "finally") EXCEPT
                !.plus = 1, !.lineOff = S.nextOff]
       ELSE [S EXCEPT !.y = FALSE, !.phase = "finally"]

\* the generator's local variables as a record
Locals ==
    [buffer |-> buffer, lineNumber |-> lineNumber,
     inPackageBlock |-> inPackageBlock, bracketDepth |-> bracketDepth,
     lines |-> lines, line |-> line, phase |-> phase, nextOff |-> nextOff,
     lineOff |-> nextOff - Len(line) - 1,
     y |-> FALSE, version |-> "", plus |-> 0]

InitialLocals(k) ==
    [buffer |-> "", lineNumber |-> InitialLineNumber(k),
     inPackageBlock |-> FALSE, bracketDepth |-> 0,
     lines |-> <<>>, line |-> "", phase |-> "top", nextOff |-> 1,
     lineOff |-> 0, y |-> FALSE, version |-> "", plus |-> 0]

\* the object a yield hands to the consumer
MatchOf(R) == [version |-> R.version, lineNumber |-> R.lineNumber + R.plus]

SetLocals(R) ==
    /\ buffer' = R.buffer
    /\ lineNumber' = R.lineNumber
    /\ inPackageBlock' = R.inPackageBlock
    /\ bracketDepth' = R.bracketDepth
    /\ lines' = R.lines
    /\ line' = R.line
    /\ phase' = R.phase
    /\ nextOff' = R.nextOff

\* the generator stops at a yield (R.y) or goes on to `otherwise`
Suspend(R, otherwise) ==
    /\ SetLocals(R)
    /\ IF R.y
       THEN /\ pc' = "yield"
            /\ out' = Append(out, MatchOf(R))
            /\ outAt' = Append(outAt, R.lineOff)
       ELSE /\ pc' = otherwise
            /\ UNCHANGED <<out, outAt>>

\* a release written after the loop instead of in a finally block
ReleasesOnExitWithoutFinally(how) == IF how = "done" THEN 1 ELSE 0

\* how many times the finally block calls reader.releaseLock() when the
\* generator is left by `how`: "done", "returned" (the consumer's return())
\* or "threw"
ReleasesOnExit(how) == 1

\* try { ... } finally { reader.releaseLock() }
Finally(how) ==
    /\ pc' = how
    /\ releases' = releases + ReleasesOnExit(how)
    /\ reader' = IF ReleasesOnExit(how) > 0 THEN "released" ELSE reader

-----------------------------------------------------------------------------
(* Inputs of the extractors *)

MaxLines == 3

\* read() delivers chunks of a multiple of ChunkUnit bytes, or all the rest
ChunkUnit == 9

ChunkSizes(r) == { n \in 0..Len(r) : n % ChunkUnit = 0 \/ n = Len(r) }

PackageNames == {"ab", "@s/ab"}

NpmLines(p) ==
    { "\"node_modules/" \o p \o "\": {",
      "\"version\": \"1.0.0\",",
      "},",
      "\"" \o p \o "\": {\"version\": \"2.0.0\"}",
      "\"cd\": {" }

\* the header of a yarn v1 block: yarn writes a scoped name in quotes
YarnHeader(p) ==
    IF startsWith(p, "@") THEN "\"" \o p \o "@^1.0.0\":" ELSE p \o "@^1.0.0:"

YarnLines(p) ==
    { YarnHeader(p),
      "  version \"1.0.0\"",
      "",
      "  resolution: \"" \o p \o "@npm:2.0.0\"",
      "cd@^3.0.0:" }

PnpmLines(p) ==
    { "  /" \o p \o "/1.0.0:",
      "  /" \o p \o "@1.0.0:",
      "    version: 8.0.0(" \o p \o "@1.0.0)",
      "  /" \o p \o "/2.0.0: {version: 2.0.1}",
      "lockfileVersion: 5.4" }

BunLines(p) ==
    { "\"" \o p \o "\": [\"" \o p \o "@1.0.0\", \"\", {}],",
      "\"cd\": [\"cd@2.0.0\"],",
      "\"" \o p \o "\": \"workspace:*\",",
      "\"x" \o p \o "\": [\"x" \o p \o "@3.0.0\"]," }

LinesOf(k, p) ==
    CASE k = "npm" -> NpmLines(p)
      [] k = "yarn" -> YarnLines(p)
      [] k = "pnpm" -> PnpmLines(p)
      [] k = "bun" -> BunLines(p)

\* the lines joined by "\n"
RECURSIVE Join(_)
Join(ls) ==
    IF Len(ls) = 0 THEN ""
    ELSE IF Len(ls) = 1 THEN ls[1]
    ELSE ls[1] \o "\n" \o Join(Tail(ls))

\* streams of up to MaxLines lines, the last one terminated or not
Texts(k, p) ==
    { Join(ls) \o nl :
        ls \in UNION { [1..n -> LinesOf(k, p)] : n \in 1..MaxLines },
        nl \in {"", "\n"} }

-----------------------------------------------------------------------------
(* The whole run of an extractor whose stream delivers t as one chunk and   *)
(* whose consumer pulls to the end (the for await of parseLockfile): the    *)
(* sequence of matches.                                                     *)

RECURSIVE Drain(_, _, _, _)

\* the consumer takes the match of a yield and pulls again
Pull(k, p, R, acc) ==
    IF R.y THEN Drain(k, p, R, Append(acc, MatchOf(R)))
    ELSE [S |-> R, out |-> acc]

Drain(k, p, S, acc) == Pull(k, p, RunLoop(k, p, S), acc)

\* the match of the remaining buffer, if it yields one
WithRemaining(acc, R) == IF R.y THEN Append(acc, MatchOf(R)) ELSE acc

\* what the consumer holds when the stream has ended
AtEnd(k, A) == WithRemaining(A.out, Remaining(k, A.S))

ExtractWhole(k, p, t) ==
    AtEnd(k, Drain(k, p, TakeChunk(InitialLocals(k), t), <<>>))

\* the matches a generator yields from a stream that delivers delivered
\* and then rejects the next read
MatchesBeforeFailure(k, pkg, delivered) ==
    Drain(k, pkg, TakeChunk(InitialLocals(k), delivered), <<>>).out

Versions(ms) == [i \in 1..Len(ms) |-> ms[i].version]

-----------------------------------------------------------------------------
(* The extractor as a state machine, with its consumer *)

\* no version collector is in use
CollectorIdle == versions = <<>> /\ ops = <<>> /\ opCount = 0

KeyIdle == requests = <<>> /\ generated = <<>>

\* no request is on the crawl route
RouteIdle == handlers = <<>> /\ completed = {}

CacheIdle ==
    /\ cache = <<>>
    /\ maxSize = 1
    /\ maxAgeMs = 1
    /\ now = 0
    /\ result = <<>>
    /\ lastUse = <<>>
    /\ setAt = <<>>
    /\ cacheOps = 0

\* the repository scanner is not in use
ScanIdle ==
    /\ branchParam = "" /\ actualBranch = "" /\ commitSha = ""
    /\ tree = <<>> /\ manifestFiles = <<>> /\ lockfiles = <<>>
    /\ fileIndex = 0
    /\ scanSources = <<>> /\ calls = <<>> /\ served = <<>>

\* the manifest parser is not in use
ManifestIdle ==
    /\ manifest = ""
    /\ manifestPath = ""
    /\ records = <<>>
    /\ threw = FALSE

LockInit ==
    /\ mode = "lock"
    /\ kind \in Kinds
    /\ packageName \in PackageNames
    /\ text \in Texts(kind, packageName)
    /\ rest = text
    /\ reader = "none"
    /\ releases = 0
    /\ readsAfterRelease = 0
    /\ buffer = ""
    /\ lineNumber = InitialLineNumber(kind)
    /\ inPackageBlock = FALSE
    /\ bracketDepth = 0
    /\ lines = <<>>
    /\ line = ""
    /\ phase = "top"
    /\ nextOff = 1
    /\ pc = "start"
    /\ out = <<>>
    /\ outAt = <<>>
    /\ ManifestIdle
    /\ ScanIdle
    /\ CollectorIdle
    /\ CacheIdle
    /\ KeyIdle
    /\ RouteIdle

\* the first next(): response.body is present, the reader is acquired and
\* the generator awaits the first read
Start ==
    /\ mode = "lock" /\ pc = "start"
    /\ UNCHANGED notLock
    /\ reader' = "held"
    /\ pc' = "read"
    /\ UNCHANGED <<mode, kind, packageName, text, rest, releases,
                   readsAfterRelease, buffer, lineNumber, inPackageBlock,
                   bracketDepth, lines, line, phase, nextOff, out, outAt>>

\* a first next() that acquires a reader before it tests the body
StartNoBodyAcquires ==
    /\ mode = "lock" /\ pc = "start"
    /\ UNCHANGED notLock
    /\ pc' = "done"
    /\ reader' = "held"
    /\ UNCHANGED <<mode, kind, packageName, text, rest, releases,
                   readsAfterRelease, buffer, lineNumber, inPackageBlock,
                   bracketDepth, lines, line, phase, nextOff, out, outAt>>

\* the first next() on a response without a body: return, nothing acquired
StartNoBody ==
    /\ mode = "lock" /\ pc = "start"
    /\ UNCHANGED notLock
    /\ pc' = "done"
    /\ UNCHANGED <<mode, kind, packageName, text, rest, reader, releases,
                   readsAfterRelease, buffer, lineNumber, inPackageBlock,
                   bracketDepth, lines, line, phase, nextOff, out, outAt>>

CountRead ==
    readsAfterRelease' =
        IF reader = "released" THEN readsAfterRelease + 1 ELSE readsAfterRelease

\* reader.read() resolves with a chunk of n bytes (n = 0: an empty chunk)
ReadChunk ==
    /\ mode = "lock" /\ pc = "read"
    /\ UNCHANGED notLock
    /\ \E n \in ChunkSizes(rest) :
          /\ rest' = SubSeq(rest, n + 1, Len(rest))
          /\ Suspend(RunLoop(kind, packageName,
                             TakeChunk(Locals, SubSeq(rest, 1, n))), "read")
    /\ CountRead
    /\ UNCHANGED <<mode, kind, packageName, text, reader, releases>>

\* reader.read() resolves with done: the rest after the loop, then finally
ReadDone ==
    /\ mode = "lock" /\ pc = "read" /\ rest = ""
    /\ UNCHANGED notLock
    /\ LET R == Remaining(kind, Locals)
       IN IF R.y
          THEN /\ Suspend(R, "yield")
               /\ UNCHANGED <<reader, releases>>
          ELSE /\ Finally("done")
               /\ UNCHANGED <<buffer, lineNumber, inPackageBlock, bracketDepth,
                              lines, line, phase, nextOff, out, outAt>>
    /\ CountRead
    /\ UNCHANGED <<mode, kind, packageName, text, rest>>

\* reader.read() rejects: the error leaves the generator through finally
ReadError ==
    /\ mode = "lock" /\ pc = "read"
    /\ UNCHANGED notLock
    /\ Finally("threw")
    /\ CountRead
    /\ UNCHANGED <<mode, kind, packageName, text, rest, buffer, lineNumber,
                   inPackageBlock, bracketDepth, lines, line, phase, nextOff,
                   out, outAt>>

\* the consumer's next() at a yield
Resume ==
    /\ mode = "lock" /\ pc = "yield"
    /\ UNCHANGED notLock
    /\ IF phase = "finally"
       THEN /\ Finally("done")
            /\ UNCHANGED <<buffer, lineNumber, inPackageBlock, bracketDepth,
                           lines, line, phase, nextOff, out, outAt>>
       ELSE /\ Suspend(RunLoop(kind, packageName, Locals), "read")
            /\ UNCHANGED <<reader, releases>>
    /\ UNCHANGED <<mode, kind, packageName, text, rest, readsAfterRelease>>

\* the consumer's return() at a yield (break, or an error in the loop body)
Abandon ==
    /\ mode = "lock" /\ pc = "yield"
    /\ UNCHANGED notLock
    /\ Finally("returned")
    /\ UNCHANGED <<mode, kind, packageName, text, rest, readsAfterRelease,
                   buffer, lineNumber, inPackageBlock, bracketDepth, lines,
                   line, phase, nextOff, out, outAt>>

LockNext ==
    \/ Start
    \/ StartNoBody
    \/ ReadChunk
    \/ ReadDone
    \/ ReadError
    \/ Resume
    \/ Abandon

SpecLock == LockInit /\ [][LockNext]_vars

-----------------------------------------------------------------------------
(* Properties of the lockfile extractors *)

TextLines == split(text)

\* the 1-indexed line of text that holds offset off
LineOfOffset(off) == 1 + CountChar(SubSeq(text, 1, off - 1), "\n")

\* the indexes of the matches found on line i of the stream
MatchesOnLine(i) == { n \in 1..Len(out) : LineOfOffset(outAt[n]) = i }

\* the extractor acquired the reader and its consumer pulled it to the end
Exhausted == mode = "lock" /\ pc = "done" /\ reader = "released"

\* C1: in a yarn.lock stream, an unindented header line starting with
\* <pkg>@ that is immediately followed by an indented version "<v>" line
\* gives exactly one match for that block, with version v.
C1_YarnBlockYieldsOneMatch ==
    (Exhausted /\ kind = "yarn") =>
        \A i \in 1..(Len(TextLines) - 1) :
            ( /\ startsWith(TextLines[i], packageName \o "@")
              /\ YarnVersionMatch(TextLines[i + 1]).found )
            => /\ Cardinality(MatchesOnLine(i + 1)) = 1
               /\ \A n \in MatchesOnLine(i + 1) :
                     out[n].version = YarnVersionMatch(TextLines[i + 1]).v

\* C2: every match yielded by an extractor for an occurrence on the k-th
\* line of the file (the first line being line 1) carries lineNumber = k,
\* for every chunking and also on an unterminated last line.
C2_LineNumberIsLineOfOccurrence ==
    mode = "lock" =>
        \A n \in 1..Len(out) : out[n].lineNumber = LineOfOffset(outAt[n])

\* C3: a stream whose last line is not terminated by a newline yields the
\* same versions, in the same number, as the same stream with a newline
\* appended.
C3_UnterminatedLastLineNotLost ==
    (Exhausted /\ ~endsWith(text, "\n")) =>
        Versions(out) = Versions(ExtractWhole(kind, packageName, text \o "\n"))

\* C4: when the reader was acquired it is released exactly once on every
\* way out (stream exhausted, consumer's return() at a yield, read error),
\* never more than once, never while the extractor still runs, and no read
\* follows the release.
C4_ReaderReleasedExactlyOnce ==
    mode = "lock" =>
        /\ releases <= 1
        /\ readsAfterRelease = 0
        /\ (reader = "held") <=> (pc \in {"read", "yield"})
        /\ (reader = "held") => releases = 0
        /\ (pc \in {"done", "returned", "threw"} /\ reader # "none")
              => (releases = 1 /\ reader = "released")

\* C4 witness: the consumer abandoned the sequence at a yield and the
\* reader was released
C4_Witness ==
    mode = "lock" /\ pc = "returned" /\ Len(out) >= 1 /\ releases = 1

\* what the stream has delivered so far
Consumed == SubSeq(text, 1, Len(text) - Len(rest))

\* C11: the sequence of matches depends only on the concatenation of the
\* chunks: whenever the extractor waits for its next read, the matches
\* yielded so far are those of the delivered bytes taken as one chunk, and
\* when the stream is exhausted they are those of the whole text delivered
\* in one chunk, however the text was split (empty chunks, splits inside a
\* line).
C11_MatchesIndependentOfChunking ==
    /\ (mode = "lock" /\ pc = "read") =>
           out = MatchesBeforeFailure(kind, packageName, Consumed)
    /\ Exhausted => out = ExtractWhole(kind, packageName, text)

\* C11 witness: a chunk has ended inside a line after a match was yielded,
\* and more of the stream is to come
C11_Witness ==
    /\ mode = "lock" /\ pc = "read"
    /\ buffer # "" /\ rest # "" /\ ~startsWith(rest, "\n")
    /\ out # <<>>
    /\ Consumed # ""

\* a target block written on one line: the header and the version field,
\* with balanced braces
NpmOneLineBlock(l) ==
    /\ includes(l, "\"node_modules/" \o packageName \o "\"")
          \/ includes(l, "\"" \o packageName \o "\"")
    /\ NpmVersionMatch(l).found
    /\ CountChar(l, "{") = 1 /\ CountChar(l, "}") = 1

\* a target block spread over lines i, i + 1, i + 2: header, version, close
NpmThreeLineBlock(i) ==
    /\ i + 2 <= Len(TextLines)
    /\ includes(TextLines[i], "\"node_modules/" \o packageName \o "\"")
    /\ ~NpmVersionMatch(TextLines[i]).found
    /\ CountChar(TextLines[i], "{") = 1 /\ CountChar(TextLines[i], "}") = 0
    /\ NpmVersionMatch(TextLines[i + 1]).found
    /\ CountChar(TextLines[i + 1], "{") = 0
    /\ CountChar(TextLines[i + 1], "}") = 0
    /\ trim(TextLines[i + 2]) \in {"}", "},"}

\* C9: a target block of an npm lock stream that holds exactly one
\* "version": "<v>" field gives exactly one match, with version v, whether
\* written on one line or over several lines.
C9_NpmBlockYieldsOneMatch ==
    (Exhausted /\ kind = "npm") =>
        /\ \A i \in 1..Len(TextLines) :
              NpmOneLineBlock(TextLines[i]) =>
                 /\ Cardinality(MatchesOnLine(i)) = 1
                 /\ \A n \in MatchesOnLine(i) :
                       out[n].version = NpmVersionMatch(TextLines[i]).v
        /\ \A i \in 1..Len(TextLines) :
              NpmThreeLineBlock(i) =>
                 /\ Cardinality(MatchesOnLine(i) \cup MatchesOnLine(i + 1)
                                \cup MatchesOnLine(i + 2)) = 1
                 /\ \A n \in MatchesOnLine(i + 1) :
                       out[n].version = NpmVersionMatch(TextLines[i + 1]).v

-----------------------------------------------------------------------------
(* JSON.parse, on the JSON the manifests of the model use: objects,         *)
(* arrays, strings without escapes, numbers without exponent, literals.     *)
(* A value is a record: t is its type, s the text of a string, number or    *)
(* boolean, keys and vals the members of an object in the order written     *)
(* (vals alone: the elements of an array).                                  *)

JValue(t, s, keys, vals) == [t |-> t, s |-> s, keys |-> keys, vals |-> vals]

Undefined == JValue("undefined", "", <<>>, <<>>)

\* an inherited method: a property found on the prototype chain
InheritedFunction == JValue("function", "", <<>>, <<>>)

SyntaxError == [ok |-> FALSE, v |-> Undefined, i |-> 0]

Parsed(v, i) == [ok |-> TRUE, v |-> v, i |-> i]

\* a string literal at position i
ParseString(s, i) ==
    LET k == SkipUntil(s, i + 1, {"\"", "\\", "\n", "\r", "\t"})
    IN IF i <= Len(s) /\ CharAt(s, i) = "\"" /\ k <= Len(s) /\ CharAt(s, k) = "\""
       THEN Parsed(JValue("str", SubSeq(s, i + 1, k - 1), <<>>, <<>>), k + 1)
       ELSE SyntaxError

\* a number at position i: -? (0 | [1-9][0-9]*) (. [0-9]+)?
ParseNumber(s, i) ==
    LET j == IF i <= Len(s) /\ CharAt(s, i) = "-" THEN i + 1 ELSE i
        d == SkipDigits(s, j)
        e == SkipDigits(s, d + 1)
        frac == d <= Len(s) /\ CharAt(s, d) = "."
    IN IF d = j \/ (CharAt(s, j) = "0" /\ d > j + 1) THEN SyntaxError
       ELSE IF ~frac THEN Parsed(JValue("num", SubSeq(s, i, d - 1), <<>>, <<>>), d)
       ELSE IF e = d + 1 THEN SyntaxError
       ELSE Parsed(JValue("num", SubSeq(s, i, e - 1), <<>>, <<>>), e)

ParseLiteral(s, i, word, v) ==
    IF StartsWithAt(s, word, i) THEN Parsed(v, i + Len(word)) ELSE SyntaxError

RECURSIVE ParseValue(_, _)
RECURSIVE ParseMembers(_, _, _, _)
RECURSIVE ParseElements(_, _, _)

\* the members of an object from position i (a key is expected there)
ParseMembers(s, i, keys, vals) ==
    LET k == ParseString(s, SkipSpaces(s, i))
        c == SkipSpaces(s, k.i)
        v == ParseValue(s, c + 1)
        n == SkipSpaces(s, v.i)
    IN IF ~k.ok \/ c > Len(s) \/ CharAt(s, c) # ":" THEN SyntaxError
       ELSE IF ~v.ok \/ n > Len(s) THEN SyntaxError
       ELSE IF CharAt(s, n) = "}"
            THEN Parsed(JValue("obj", "", Append(keys, k.v.s), Append(vals, v.v)),
                        n + 1)
       ELSE IF CharAt(s, n) = ","
            THEN ParseMembers(s, n + 1, Append(keys, k.v.s), Append(vals, v.v))
       ELSE SyntaxError

\* the elements of an array from position i (a value is expected there)
ParseElements(s, i, vals) ==
    LET v == ParseValue(s, i)
        n == SkipSpaces(s, v.i)
    IN IF ~v.ok \/ n > Len(s) THEN SyntaxError
       ELSE IF CharAt(s, n) = "]"
            THEN Parsed(JValue("arr", "", <<>>, Append(vals, v.v)), n + 1)
       ELSE IF CharAt(s, n) = "," THEN ParseElements(s, n + 1, Append(vals, v.v))
       ELSE SyntaxError

ParseValue(s, i0) ==
    LET i == SkipSpaces(s, i0)
        c == CharAt(s, i)
        n == SkipSpaces(s, i + 1)
    IN IF i > Len(s) THEN SyntaxError
       ELSE IF c = "{"
            THEN IF n <= Len(s) /\ CharAt(s, n) = "}"
                 THEN Parsed(JValue("obj", "", <<>>, <<>>), n + 1)
                 ELSE ParseMembers(s, i + 1, <<>>, <<>>)
       ELSE IF c = "["
            THEN IF n <= Len(s) /\ CharAt(s, n) = "]"
                 THEN Parsed(JValue("arr", "", <<>>, <<>>), n + 1)
                 ELSE ParseElements(s, i + 1, <<>>)
       ELSE IF c = "\"" THEN ParseString(s, i)
       ELSE IF c = "-" \/ IsDigit(c) THEN ParseNumber(s, i)
       ELSE IF c = "n" THEN ParseLiteral(s, i, "null", JValue("null", "", <<>>, <<>>))
       ELSE IF c = "t" THEN ParseLiteral(s, i, "true", JValue("bool", "true", <<>>, <<>>))
       ELSE IF c = "f" THEN ParseLiteral(s, i, "false", JValue("bool", "false", <<>>, <<>>))
       ELSE SyntaxError

\* JSON.parse(content): ok = FALSE stands for the SyntaxError it throws
JsonParse(s) ==
    LET r == ParseValue(s, 1)
    IN IF r.ok /\ SkipSpaces(s, r.i) = Len(s) + 1 THEN r ELSE SyntaxError

-----------------------------------------------------------------------------
(* The JavaScript operations parseManifest applies to the parsed value *)

\* the properties every object inherits from Object.prototype
ObjectPrototypeKeys ==
    {"constructor", "hasOwnProperty", "isPrototypeOf", "propertyIsEnumerable",
     "toLocaleString", "toString", "valueOf", "__proto__",
     "__defineGetter__", "__defineSetter__", "__lookupGetter__",
     "__lookupSetter__"}

\* properties an array has besides its indexes (Array.prototype, in part)
ArrayPrototypeKeys ==
    {"length", "at", "concat", "entries", "every", "fill", "filter", "find",
     "flat", "forEach", "indexOf", "join", "keys", "map", "pop", "push",
     "reduce", "reverse", "shift", "slice", "some", "sort", "splice",
     "unshift", "values"}

\* the position of the member named key, 0 when the object has no such own
\* key; of two members with the same key JSON.parse keeps the last
OwnIndex(v, key) ==
    IF \E j \in 1..Len(v.keys) : v.keys[j] = key
    THEN CHOOSE j \in 1..Len(v.keys) :
             v.keys[j] = key /\ \A m \in (j + 1)..Len(v.keys) : v.keys[m] # key
    ELSE 0

ArrayIndex(v, key) ==
    IF \E j \in 1..Len(v.vals) : ToString(j - 1) = key
    THEN CHOOSE j \in 1..Len(v.vals) : ToString(j - 1) = key
    ELSE 0

\* value[key] for a value that is not null or undefined, for the keys the
\* parser reads (section names, package names)
GetProperty(v, key) ==
    IF v.t = "obj"
    THEN IF OwnIndex(v, key) # 0 THEN v.vals[OwnIndex(v, key)]
         ELSE IF key \in ObjectPrototypeKeys THEN InheritedFunction
         ELSE Undefined
    ELSE IF v.t = "arr"
    THEN IF ArrayIndex(v, key) # 0 THEN v.vals[ArrayIndex(v, key)]
         ELSE IF key \in ArrayPrototypeKeys \cup ObjectPrototypeKeys
              THEN InheritedFunction
         ELSE Undefined
    ELSE Undefined

\* key in value, for an object or an array: own or inherited
HasProperty(v, key) ==
    IF v.t = "obj"
    THEN OwnIndex(v, key) # 0 \/ key \in ObjectPrototypeKeys
    ELSE ArrayIndex(v, key) # 0
            \/ key \in ArrayPrototypeKeys \cup ObjectPrototypeKeys

IsZero(lexeme) == \A i \in 1..Len(lexeme) : CharAt(lexeme, i) \in {"0", "-", "."}

\* !value
Falsy(v) ==
    \/ v.t \in {"undefined", "null"}
    \/ v.t = "bool" /\ v.s = "false"
    \/ v.t = "str" /\ v.s = ""
    \/ v.t = "num" /\ IsZero(v.s)

\* the value stored in DependencySource.version, written as text: a string
\* is itself, any other value is named by what String(value) gives
RenderValue(v) ==
    CASE v.t \in {"str", "num", "bool"} -> v.s
      [] v.t = "null" -> "null"
      [] v.t = "obj" -> "[object Object]"
      [] v.t = "arr" -> "[array]"
      [] v.t = "function" -> "[function]"
      [] v.t = "undefined" -> "undefined"

-----------------------------------------------------------------------------
(* ManifestParser *)

\* findLineNumber, the loop from line i (1-indexed) on
RECURSIVE FindLineFrom(_, _, _, _, _, _)
FindLineFrom(ls, i, pkg, dependencyType, inSection, sectionStarted) ==
    IF i > Len(ls) THEN 1
    ELSE LET trimmed == trim(ls[i])
         IN IF \/ startsWith(trimmed, "\"" \o dependencyType \o "\"")
               \/ startsWith(trimmed, "'" \o dependencyType \o "'")
            THEN FindLineFrom(ls, i + 1, pkg, dependencyType, TRUE, TRUE)
            ELSE IF ~inSection
            THEN FindLineFrom(ls, i + 1, pkg, dependencyType, inSection,
                              sectionStarted)
            ELSE IF sectionStarted /\ startsWith(trimmed, "\"")
                    /\ ~includes(trimmed, ":")
            THEN 1
            ELSE IF trimmed = "}" \/ trimmed = "},"
            THEN FindLineFrom(ls, i + 1, pkg, dependencyType, FALSE, FALSE)
            ELSE IF /\ \/ startsWith(trimmed, "\"" \o pkg \o "\"")
                       \/ startsWith(trimmed, "'" \o pkg \o "'")
                    /\ includes(trimmed, ":")
            THEN i
            ELSE FindLineFrom(ls, i + 1, pkg, dependencyType, inSection,
                              sectionStarted)

findLineNumber(content, pkg, dependencyType) ==
    FindLineFrom(split(content), 1, pkg, dependencyType, FALSE, FALSE)

\* a link that names the file but not the line
lineUrlOfFileOnly(repoUrl, branch, filePath, n) ==
    repoUrl \o "/blob/" \o branch \o "/" \o filePath

\* `${repoUrl}/blob/${branch}/${filePath}#L${lineNumber}`
lineUrlOf(repoUrl, branch, filePath, n) ==
    repoUrl \o "/blob/" \o branch \o "/" \o filePath \o "#L" \o ToString(n)

dependencyTypes ==
    <<"dependencies", "devDependencies", "peerDependencies",
      "optionalDependencies">>

\* a catch block that lets the SyntaxError through
JsonFailureRethrown == TRUE

\* whether a failing JSON.parse reaches the caller: the catch returns []
JsonFailureThrows == FALSE

\* what one iteration of `for (const depType of dependencyTypes)` does:
\* "throw" (a TypeError), "continue", or "push"
SectionOutcome(parsed, pkg, depType) ==
    IF parsed.t = "null" THEN "throw"
    ELSE LET deps == GetProperty(parsed, depType)
         IN IF Falsy(deps) THEN "continue"
            ELSE IF deps.t \notin {"obj", "arr", "function"} THEN "throw"
            ELSE IF ~HasProperty(deps, pkg) THEN "continue"
            ELSE "push"

SectionRecord(parsed, content, pkg, depType, filePath, repoUrl, branch) ==
    [path |-> filePath,
     type |-> "manifest",
     dependencyType |-> depType,
     version |-> RenderValue(GetProperty(GetProperty(parsed, depType), pkg)),
     lineUrl |-> lineUrlOf(repoUrl, branch, filePath,
                           findLineNumber(content, pkg, depType))]

\* the loop over dependencyTypes from index i, sources being the records
\* pushed so far
RECURSIVE SectionLoop(_, _, _, _, _, _, _, _)
SectionLoop(parsed, content, pkg, filePath, repoUrl, branch, i, sources) ==
    IF i > Len(dependencyTypes) THEN [threw |-> FALSE, sources |-> sources]
    ELSE LET o == SectionOutcome(parsed, pkg, dependencyTypes[i])
         IN IF o = "throw" THEN [threw |-> TRUE, sources |-> <<>>]
            ELSE SectionLoop(parsed, content, pkg, filePath, repoUrl, branch,
                   i + 1,
                   IF o = "push"
                   THEN Append(sources,
                               SectionRecord(parsed, content, pkg,
                                   dependencyTypes[i], filePath, repoUrl, branch))
                   ELSE sources)

\* parseManifest: threw says that an error reached the caller
parseManifest(content, pkg, filePath, repoUrl, branch) ==
    LET r == JsonParse(content)
    IN IF ~r.ok THEN [threw |-> JsonFailureThrows, sources |-> <<>>]
       ELSE SectionLoop(r.v, content, pkg, filePath, repoUrl, branch, 1, <<>>)

\* isManifestFile
isManifestFile(path) == endsWith(path, "package.json")

-----------------------------------------------------------------------------
(* Inputs of the manifest parser *)

\* what a manifest says under one dependency section
SectionOptions == {"absent", "pkg", "other", "empty", "string"}

\* the range each section writes for the package
SectionVersions == <<"^1.0.0", "~2.0.0", ">=3.0.0", "workspace:*">>

ManifestKeys == {"ab", "@s/ab"}

ManifestPackageNames == ManifestKeys \cup {"constructor"}

Quoted(s) == "\"" \o s \o "\""

\* the member of section i as JSON.stringify(value, null, 2) writes it
\* (pretty) or as JSON.stringify(value) does
SectionMember(i, opt, key, pretty) ==
    LET name == Quoted(dependencyTypes[i])
        entry == IF opt = "pkg"
                 THEN Quoted(key) \o (IF pretty THEN ": " ELSE ":")
                          \o Quoted(SectionVersions[i])
                 ELSE Quoted("zz") \o (IF pretty THEN ": " ELSE ":")
                          \o Quoted("9.9.9")
    IN IF pretty
       THEN CASE opt \in {"pkg", "other"} ->
                     "  " \o name \o ": {\n    " \o entry \o "\n  }"
              [] opt = "empty" -> "  " \o name \o ": {}"
              [] opt = "string" -> "  " \o name \o ": \"x\""
       ELSE CASE opt \in {"pkg", "other"} -> name \o ":{" \o entry \o "}"
              [] opt = "empty" -> name \o ":{}"
              [] opt = "string" -> name \o ":\"x\""

RECURSIVE SectionMembers(_, _, _, _)
SectionMembers(i, opts, key, pretty) ==
    IF i > Len(dependencyTypes) THEN ""
    ELSE (IF opts[i] = "absent" THEN ""
          ELSE (IF pretty THEN ",\n" ELSE ",")
                   \o SectionMember(i, opts[i], key, pretty))
         \o SectionMembers(i + 1, opts, key, pretty)

ManifestText(opts, key, pretty) ==
    IF pretty
    THEN "{\n  \"name\": \"x\"" \o SectionMembers(1, opts, key, TRUE) \o "\n}"
    ELSE "{\"name\":\"x\"" \o SectionMembers(1, opts, key, FALSE) \o "}"

\* package.json files that are JSON objects
ObjectManifests ==
    { ManifestText(opts, key, pretty) :
        opts \in [1..Len(dependencyTypes) -> SectionOptions],
        key \in ManifestKeys, pretty \in BOOLEAN }

\* JSON whose top-level value or whose dependency section is not an object
OddManifests ==
    { "null", "5", "\"str\"", "[]", "true",
      "{\"dependencies\": 5}", "{\"dependencies\": 0}",
      "{\"dependencies\": null}", "{\"dependencies\": \"\"}",
      "{\"dependencies\": true}", "{\"dependencies\": [\"ab\"]}",
      "{\"devDependencies\": {\"ab\": \"1.0.0\"}, \"peerDependencies\": 7}" }

\* text that is not JSON
MalformedManifests ==
    { "invalid json {", "", "{", "{\"dependencies\": {\"ab\": \"1.0.0\"}",
      "{'dependencies': {'ab': '1.0.0'}}",
      "{\"dependencies\": {\"ab\": \"1.0.0\",}}",
      "{\"dependencies\": }", "{\"dependencies\": {\"ab\": \"1.0.0\"}} x" }

\* manifests written by hand, a section on one line
HandWrittenManifests ==
    { "{\n  \"dependencies\": { " \o Quoted(key) \o ": \"^1.0.0\" },\n"
        \o "  " \o Quoted(other) \o ": {\n    " \o Quoted(key)
        \o ": \"~2.0.0\"\n  }\n}" :
        key \in ManifestKeys, other \in {"devDependencies", "resolutions"} }

ManifestContents ==
    ObjectManifests \cup OddManifests \cup MalformedManifests
        \cup HandWrittenManifests

ManifestPaths == {"package.json", "packages/app/package.json"}

RepoUrl == "https://github.com/o/r"

Branch == "main"

-----------------------------------------------------------------------------
(* parseManifest as an operation *)

\* the lockfile extractors are not in use
LockIdle ==
    /\ kind = "none"
    /\ text = "" /\ rest = ""
    /\ reader = "none" /\ releases = 0 /\ readsAfterRelease = 0
    /\ buffer = "" /\ lineNumber = 0
    /\ inPackageBlock = FALSE /\ bracketDepth = 0
    /\ lines = <<>> /\ line = "" /\ phase = "top" /\ nextOff = 1
    /\ out = <<>> /\ outAt = <<>>

ManifestInit ==
    /\ mode = "manifest"
    /\ packageName \in ManifestPackageNames
    /\ manifest \in ManifestContents
    /\ manifestPath \in ManifestPaths
    /\ records = <<>>
    /\ threw = FALSE
    /\ pc = "call"
    /\ LockIdle
    /\ ScanIdle
    /\ CollectorIdle
    /\ CacheIdle
    /\ KeyIdle
    /\ RouteIdle

\* parseManifest returns its records
ParseManifestReturns ==
    /\ mode = "manifest" /\ pc = "call"
    /\ LET r == parseManifest(manifest, packageName, manifestPath, RepoUrl, Branch)
       IN /\ ~r.threw
          /\ records' = r.sources
    /\ pc' = "returned"
    /\ UNCHANGED <<mode, packageName, manifest, manifestPath, threw, notManifest>>

\* parseManifest lets an error reach its caller
ParseManifestThrows ==
    /\ mode = "manifest" /\ pc = "call"
    /\ parseManifest(manifest, packageName, manifestPath, RepoUrl, Branch).threw
    /\ threw' = TRUE
    /\ pc' = "threw"
    /\ UNCHANGED <<mode, packageName, manifest, manifestPath, records, notManifest>>

ManifestNext == ParseManifestReturns \/ ParseManifestThrows

SpecManifest == ManifestInit /\ [][ManifestNext]_vars

-----------------------------------------------------------------------------
(* Properties of the manifest parser *)

\* C6: parseManifest raises no error, whatever the manifest: text that is
\* not JSON, JSON whose top-level value is not an object, JSON in which a
\* dependency section is not an object.
C6_ParseManifestNeverRaises ==
    mode = "manifest" => (pc # "threw" /\ ~threw)

\* C7: for a manifest that is not parseable as JSON, parseManifest returns
\* an empty list of records and raises no error.
C7_MalformedManifestGivesEmptyList ==
    (mode = "manifest" /\ manifest \in MalformedManifests /\ pc # "call")
        => (pc = "returned" /\ records = <<>> /\ ~threw)

\* C7 witness: the call on the text of the test suite has returned
C7_Witness ==
    /\ mode = "manifest" /\ manifest = "invalid json {"
    /\ pc = "returned" /\ records = <<>>

\* the sections of a parsed manifest whose value is an object with pkg as
\* one of its own keys, in the order of dependencyTypes
OwnSections(parsed, pkg) ==
    SelectSeq(dependencyTypes,
              LAMBDA d : /\ OwnIndex(parsed, d) # 0
                         /\ parsed.vals[OwnIndex(parsed, d)].t = "obj"
                         /\ OwnIndex(parsed.vals[OwnIndex(parsed, d)], pkg) # 0)

\* the value written for pkg in section d
WrittenValue(parsed, d, pkg) ==
    LET section == parsed.vals[OwnIndex(parsed, d)]
    IN section.vals[OwnIndex(section, pkg)]

\* C8: for a manifest that parses as a JSON object, parseManifest returns
\* exactly one record per section that has the package name as an own key,
\* in the order dependencies, devDependencies, peerDependencies,
\* optionalDependencies, each with the section's name and the value written
\* for the key, and no other record.
C8_OneRecordPerOwningSection ==
    (mode = "manifest" /\ pc # "call"
        /\ JsonParse(manifest).ok /\ JsonParse(manifest).v.t = "obj")
    => LET parsed == JsonParse(manifest).v
           owning == OwnSections(parsed, packageName)
       IN /\ pc = "returned"
          /\ Len(records) = Len(owning)
          /\ \A i \in 1..Len(records) :
                /\ records[i].dependencyType = owning[i]
                /\ records[i].version =
                      RenderValue(WrittenValue(parsed, owning[i], packageName))

-----------------------------------------------------------------------------
(* VersionCollector: the normalizer *)

UpperCase == "ABCDEFGHIJKLMNOPQRSTUVWXYZ"

LowerCase == "abcdefghijklmnopqrstuvwxyz"

IsLetter(c) ==
    \E i \in 1..Len(UpperCase) : c = CharAt(UpperCase, i) \/ c = CharAt(LowerCase, i)

toLowerCase(c) ==
    IF \E i \in 1..Len(UpperCase) : c = CharAt(UpperCase, i)
    THEN CharAt(LowerCase, CHOOSE i \in 1..Len(UpperCase) : c = CharAt(UpperCase, i))
    ELSE c

\* /^p/i for a pattern p of lower-case literals
StartsWithIgnoreCase(s, p) ==
    /\ Len(s) >= Len(p)
    /\ \A i \in 1..Len(p) : toLowerCase(CharAt(s, i)) = CharAt(p, i)

\* the literal prefixes of EXCLUDED_PATTERNS that are matched with /i
ExcludedPrefixes ==
    {"workspace:", "link:", "file:", "git+", "http://", "https://", "github:"}

\* EXCLUDED_PATTERNS.some((pattern) => pattern.test(version))
Excluded(version) ==
    \/ \E p \in ExcludedPrefixes : StartsWithIgnoreCase(version, p)
    \/ startsWith(version, "*")
    \/ (Len(version) = Len("latest") /\ StartsWithIgnoreCase(version, "latest"))

\* [a-zA-Z0-9.-]
IsIdentifierChar(c) == IsLetter(c) \/ IsDigit(c) \/ c = "." \/ c = "-"

RECURSIVE SkipIdentifier(_, _)
SkipIdentifier(s, i) ==
    IF i <= Len(s) /\ IsIdentifierChar(CharAt(s, i))
    THEN SkipIdentifier(s, i + 1) ELSE i

\* (\^|~|>=?|<=?|=)? from position 1: the position after it
SkipOperator(s) ==
    IF startsWith(s, ">=") \/ startsWith(s, "<=") THEN 3
    ELSE IF \E o \in {"^", "~", ">", "<", "="} : startsWith(s, o) THEN 2
    ELSE 1

\* (\.\d+)? from i: the position after it
SkipDotNumber(s, i) ==
    IF i <= Len(s) /\ CharAt(s, i) = "." /\ SkipDigits(s, i + 1) > i + 1
    THEN SkipDigits(s, i + 1) ELSE i

\* (-[a-zA-Z0-9.-]+)? or (\+[a-zA-Z0-9.-]+)? from i: the position after it
SkipSuffix(s, i, sign) ==
    IF i <= Len(s) /\ CharAt(s, i) = sign /\ SkipIdentifier(s, i + 1) > i + 1
    THEN SkipIdentifier(s, i + 1) ELSE i

\* a pattern without its anchors: any string that holds a digit matches
SemverUnanchored(version) ==
    \E i \in 1..Len(version) : IsDigit(CharAt(version, i))

\* SEMVER_REGEX.test(version)
SEMVER_REGEX(version) ==
    LET a == SkipSpaces(version, SkipOperator(version))
        b == SkipDigits(version, a)
        c == SkipDotNumber(version, SkipDotNumber(version, b))
        d == SkipSuffix(version, SkipSuffix(version, c, "-"), "+")
    IN b > a /\ d = Len(version) + 1

isValidSemver(version) == ~Excluded(version) /\ SEMVER_REGEX(version)

IsQuote(c) == c = "\"" \/ c = "'"

\* version.replace(/^["']|["']$/g, '').trim()
normalize(version) ==
    LET a == IF Len(version) > 0 /\ IsQuote(CharAt(version, 1))
             THEN SubSeq(version, 2, Len(version)) ELSE version
        b == IF Len(a) > 0 /\ IsQuote(CharAt(a, Len(a)))
             THEN SubSeq(a, 1, Len(a) - 1) ELSE a
    IN trim(b)

-----------------------------------------------------------------------------
(* parseLockfile *)

\* the generator parseLockfile selects for a path ("none": unknown type)
GeneratorOf(filePath) ==
    IF endsWith(filePath, "package-lock.json") THEN "npm"
    ELSE IF endsWith(filePath, "yarn.lock") THEN "yarn"
    ELSE IF endsWith(filePath, "pnpm-lock.yaml") THEN "pnpm"
    ELSE IF endsWith(filePath, "bun.lock") THEN "bun"
    ELSE "none"

\* the records pushed for the matches ms
LockfileRecords(ms, filePath, repoUrl, branch) ==
    [i \in 1..Len(ms) |->
        [path |-> filePath,
         type |-> "lockfile",
         dependencyType |-> "resolved",
         version |-> ms[i].version,
         lineUrl |-> lineUrlOf(repoUrl, branch, filePath, ms[i].lineNumber)]]

\* what the stream of a response delivers before it ends or fails; when
\* response.failAt >= 0 it delivers that many characters and then fails
Delivered(response) ==
    IF response.failAt >= 0
    THEN SubSeq(response.body, 1, response.failAt)
    ELSE response.body

\* the matches the for await loop has taken when the generator is done or
\* has thrown
MatchesTaken(k, response, A) ==
    IF response.failAt >= 0 THEN A.out ELSE AtEnd(k, A)

\* parseLockfile on a response.  threw says that the promise rejected,
\* sources is the local array at that moment
parseLockfile(response, filePath, pkg, repoUrl, branch) ==
    LET k == GeneratorOf(filePath)
    IN IF k = "none" THEN [threw |-> FALSE, sources |-> <<>>]
       ELSE [threw |-> response.failAt >= 0,
             sources |-> LockfileRecords(
                 MatchesTaken(k, response,
                     Drain(k, pkg,
                           TakeChunk(InitialLocals(k), Delivered(response)),
                           <<>>)),
                 filePath, repoUrl, branch)]

isLockfile(path) ==
    \/ endsWith(path, "package-lock.json")
    \/ endsWith(path, "yarn.lock")
    \/ endsWith(path, "pnpm-lock.yaml")
    \/ endsWith(path, "bun.lock")

-----------------------------------------------------------------------------
(* Inputs of the repository scanner *)

Item(path, type) == [path |-> path, type |-> type]

\* git trees: blobs and directories, lockfiles listed before or after the
\* manifests, a directory whose name ends like a manifest
Trees ==
    { <<>>,
      <<Item("package.json", "blob"), Item("yarn.lock", "blob")>>,
      <<Item("packages", "tree"), Item("pnpm-lock.yaml", "blob"),
        Item("packages/app/package.json", "blob"),
        Item("package.json", "blob"), Item("README.md", "blob"),
        Item("package-lock.json", "blob")>>,
      <<Item("bun.lock", "blob"), Item("vendor/package.json", "tree"),
        Item("package.json", "blob"), Item("src/index.ts", "blob")>>,
      <<Item("fixtures/old-package.json", "blob"),
        Item("packages/app/yarn.lock", "blob")>> }

BranchParams == {"", "dev"}

\* what getDefaultBranch answers
DefaultBranch == "main"

\* what getCommitSha answers for a ref
ShaOf(ref) == "sha-" \o ref

\* what a manifest of the repository may hold
ManifestBodies(p) ==
    { ManifestText(<<"pkg", "absent", "absent", "absent">>, p, TRUE),
      ManifestText(<<"absent", "absent", "pkg", "pkg">>, p, TRUE),
      ManifestText(<<"other", "absent", "absent", "absent">>, p, FALSE),
      "null",
      "invalid json {" }

\* what a lockfile of the repository may hold
LockfileBodies(k, p) ==
    CASE k = "npm" ->
           { "{\n\"node_modules/" \o p \o "\": {\n\"version\": \"1.0.0\",\n},\n}\n",
             "\"cd\": {\n" }
      [] k = "yarn" ->
           { p \o "@^1.0.0:\n  version \"1.0.0\"\n\ncd@^3.0.0:\n  version \"3.0.0\"\n",
             "cd@^3.0.0:\n  version \"3.0.0\"\n" }
      [] k = "pnpm" ->
           { "lockfileVersion: 5.4\n  /" \o p \o "/1.0.0:\n    dev: false\n",
             "  /" \o p \o "@1.0.0:\n    version: 8.0.0(" \o p \o "@1.0.0)\n",
             "  /" \o p \o "/1.0.0: {version: 1.0.1}\n  /" \o p \o "/2.0.0:\n" }
      [] k = "bun" ->
           { "\"" \o p \o "\": [\"" \o p \o "@1.0.0\", \"\", {}],\n\"cd\": [\"cd@2.0.0\"],\n",
             "\"" \o p \o "\": \"workspace:*\",\n" }

\* where a stream may break: before the first byte, after a line, at the end
FailPoints(body) ==
    { n \in 0..Len(body) : n = 0 \/ n = Len(body) \/ CharAt(body, n) = "\n" }

\* a Response for a lockfile; failAt = -1: the stream ends normally
Response(body, failAt) == [body |-> body, failAt |-> failAt]

\* an entry of served
Served(path, failure, body, failAt) ==
    [path |-> path, failure |-> failure, body |-> body, failAt |-> failAt]

Call(fn, arg) == [fn |-> fn, arg |-> arg]

\* getRawFileContent(owner, repo, sha, path)
FileCall(sha, path) == [fn |-> "getRawFileContent", arg |-> path, sha |-> sha]

-----------------------------------------------------------------------------
(* RepoScanner.scanRepository *)

\* the package a scan looks for: plain, scoped, or named like a property
\* every object inherits
ScanPackageNames == PackageNames \cup {"constructor"}

ScanInit ==
    /\ mode = "scan"
    /\ packageName \in ScanPackageNames
    /\ branchParam \in BranchParams
    /\ tree \in Trees
    /\ actualBranch = "" /\ commitSha = ""
    /\ manifestFiles = <<>> /\ lockfiles = <<>>
    /\ fileIndex = 0
    /\ scanSources = <<>> /\ calls = <<>> /\ served = <<>>
    /\ pc = "resolve"
    /\ LockIdle
    /\ ManifestIdle
    /\ CollectorIdle
    /\ CacheIdle
    /\ KeyIdle
    /\ RouteIdle

\* Step 1: the branch given, or the default branch, and its commit
ResolveCommit ==
    /\ mode = "scan" /\ pc = "resolve"
    /\ IF branchParam # ""
       THEN /\ actualBranch' = branchParam
            /\ calls' = Append(calls, Call("getCommitSha", branchParam))
       ELSE /\ actualBranch' = DefaultBranch
            /\ calls' = calls \o <<Call("getDefaultBranch", ""),
                                   Call("getCommitSha", DefaultBranch)>>
    /\ commitSha' = ShaOf(actualBranch')
    /\ pc' = "tree"
    /\ UNCHANGED <<mode, packageName, branchParam, tree, manifestFiles,
                   lockfiles, fileIndex, scanSources, served, notScan>>

\* Step 1 when the client rejects, at getDefaultBranch or at getCommitSha:
\* the error leaves scanRepository
ResolveCommitFails ==
    /\ mode = "scan" /\ pc = "resolve"
    /\ calls' \in IF branchParam # ""
                  THEN {Append(calls, Call("getCommitSha", branchParam))}
                  ELSE {Append(calls, Call("getDefaultBranch", "")),
                        calls \o <<Call("getDefaultBranch", ""),
                                   Call("getCommitSha", DefaultBranch)>>}
    /\ pc' = "failed"
    /\ UNCHANGED <<mode, packageName, branchParam, actualBranch, commitSha,
                   tree, manifestFiles, lockfiles, fileIndex, scanSources,
                   served, notScan>>

\* a classification that does not skip the entries that are no blobs
ManifestsOfAnyType(items) ==
    LET found == SelectSeq(items, LAMBDA item : isManifestFile(item.path))
    IN [i \in 1..Len(found) |-> found[i].path]

\* Step 3: the blobs that are manifests, in tree order
ManifestsOf(items) ==
    LET blobs == SelectSeq(items, LAMBDA item :
                     item.type = "blob" /\ isManifestFile(item.path))
    IN [i \in 1..Len(blobs) |-> blobs[i].path]

\* the lockfiles listed from the last entry of the tree to the first
LockfilesOfReversed(items) ==
    LET blobs == SelectSeq(items, LAMBDA item :
                     /\ item.type = "blob"
                     /\ ~isManifestFile(item.path)
                     /\ isLockfile(item.path))
    IN [i \in 1..Len(blobs) |-> blobs[Len(blobs) + 1 - i].path]

\* Step 3: the blobs that are lockfiles and not manifests, in tree order
LockfilesOf(items) ==
    LET blobs == SelectSeq(items, LAMBDA item :
                     /\ item.type = "blob"
                     /\ ~isManifestFile(item.path)
                     /\ isLockfile(item.path))
    IN [i \in 1..Len(blobs) |-> blobs[i].path]

\* where the scan stands once the loop `at` reaches index i: in that loop,
\* in the lockfile loop, or at its return
Position(at, i, ms, ls) ==
    IF at = "manifests" /\ i <= Len(ms) THEN [pc |-> "manifests", fileIndex |-> i]
    ELSE IF at = "manifests" /\ Len(ls) >= 1 THEN [pc |-> "lockfiles", fileIndex |-> 1]
    ELSE IF at = "lockfiles" /\ i <= Len(ls) THEN [pc |-> "lockfiles", fileIndex |-> i]
    ELSE [pc |-> "returned", fileIndex |-> 0]

MoveOn ==
    LET next == Position(pc, fileIndex + 1, manifestFiles, lockfiles)
    IN /\ pc' = next.pc
       /\ fileIndex' = next.fileIndex

\* Steps 2 and 3: fetch the tree and classify its items
GetTree ==
    /\ mode = "scan" /\ pc = "tree"
    /\ calls' = Append(calls, Call("getTree", commitSha))
    /\ manifestFiles' = ManifestsOf(tree)
    /\ lockfiles' = LockfilesOf(tree)
    /\ LET next == Position("manifests", 1, manifestFiles', lockfiles')
       IN /\ pc' = next.pc
          /\ fileIndex' = next.fileIndex
    /\ UNCHANGED <<mode, packageName, branchParam, actualBranch, commitSha,
                   tree, scanSources, served, notScan>>

GetTreeFails ==
    /\ mode = "scan" /\ pc = "tree"
    /\ calls' = Append(calls, Call("getTree", commitSha))
    /\ pc' = "failed"
    /\ UNCHANGED <<mode, packageName, branchParam, actualBranch, commitSha,
                   tree, manifestFiles, lockfiles, fileIndex, scanSources,
                   served, notScan>>

\* Step 4, one manifest: the content arrives and is parsed; an error of
\* parseManifest is caught and logged
ScanManifest ==
    /\ mode = "scan" /\ pc = "manifests"
    /\ LET filePath == manifestFiles[fileIndex]
       IN /\ calls' = Append(calls, FileCall(commitSha, filePath))
          /\ \E body \in ManifestBodies(packageName) :
                LET r == parseManifest(body, packageName, filePath, RepoUrl,
                                       actualBranch)
                IN /\ served' = Append(served, Served(filePath, "none", body, -1))
                   /\ scanSources' = IF r.threw THEN scanSources
                                     ELSE scanSources \o r.sources
    /\ MoveOn
    /\ UNCHANGED <<mode, packageName, branchParam, actualBranch, commitSha,
                   tree, manifestFiles, lockfiles, notScan>>

\* Step 4, one manifest: getRawFileContent or response.text() rejects; the
\* error is caught and logged
ScanManifestFetchFails ==
    /\ mode = "scan" /\ pc = "manifests"
    /\ LET filePath == manifestFiles[fileIndex]
       IN /\ calls' = Append(calls, FileCall(commitSha, filePath))
          /\ \E failure \in {"fetch", "text"} :
                served' = Append(served, Served(filePath, failure, "", -1))
    /\ MoveOn
    /\ UNCHANGED <<mode, packageName, branchParam, actualBranch, commitSha,
                   tree, manifestFiles, lockfiles, scanSources, notScan>>

\* a catch block that kept what the failed lockfile had yielded
CaughtLockfileKeepsPartial(sources, partial) == sources \o partial

\* the sources array after the catch block of the lockfile loop: the local
\* array of the failed parseLockfile call never reached sources.push
CaughtLockfile(sources, partial) == sources

\* Step 5, one lockfile: the response arrives and is streamed through
\* parseLockfile; a failure of the stream is caught and logged
ScanLockfile ==
    /\ mode = "scan" /\ pc = "lockfiles"
    /\ LET filePath == lockfiles[fileIndex]
       IN /\ calls' = Append(calls, FileCall(commitSha, filePath))
          /\ \E body \in LockfileBodies(GeneratorOf(filePath), packageName) :
             \E failAt \in {-1} \cup FailPoints(body) :
                LET r == parseLockfile(Response(body, failAt), filePath,
                                       packageName, RepoUrl, actualBranch)
                IN /\ served' = Append(served,
                          Served(filePath,
                                 IF failAt >= 0 THEN "stream" ELSE "none",
                                 body, failAt))
                   /\ scanSources' = IF r.threw
                                     THEN CaughtLockfile(scanSources, r.sources)
                                     ELSE scanSources \o r.sources
    /\ MoveOn
    /\ UNCHANGED <<mode, packageName, branchParam, actualBranch, commitSha,
                   tree, manifestFiles, lockfiles, notScan>>

\* Step 5, one lockfile: getRawFileContent rejects
ScanLockfileFetchFails ==
    /\ mode = "scan" /\ pc = "lockfiles"
    /\ LET filePath == lockfiles[fileIndex]
       IN /\ calls' = Append(calls, FileCall(commitSha, filePath))
          /\ served' = Append(served, Served(filePath, "fetch", "", -1))
    /\ MoveOn
    /\ UNCHANGED <<mode, packageName, branchParam, actualBranch, commitSha,
                   tree, manifestFiles, lockfiles, scanSources, notScan>>

ScanNext ==
    \/ ResolveCommit
    \/ ResolveCommitFails
    \/ GetTree
    \/ GetTreeFails
    \/ ScanManifest
    \/ ScanManifestFetchFails
    \/ ScanLockfile
    \/ ScanLockfileFetchFails

SpecScan == ScanInit /\ [][ScanNext]_vars

-----------------------------------------------------------------------------
(* Properties of the repository scanner *)

\* the scan has returned its sources
ScanReturned == mode = "scan" /\ pc = "returned"

\* C5: every version string in the sources a repository scan returns is a
\* valid semver or semver range: no value that the version normalizer
\* rejects appears in the result.
C5_ScanReturnsOnlyValidSemver ==
    ScanReturned =>
        \A i \in 1..Len(scanSources) :
            isValidSemver(normalize(scanSources[i].version))

\* the fetch or the parse of a file served as e raised an error
FileFailed(e) ==
    \/ e.failure # "none"
    \/ /\ isManifestFile(e.path)
       /\ parseManifest(e.body, packageName, e.path, RepoUrl,
                        actualBranch).threw

\* the records of the file served as e, parsed on its own from its whole
\* content
RecordsOfFile(e) ==
    IF isManifestFile(e.path)
    THEN parseManifest(e.body, packageName, e.path, RepoUrl,
                       actualBranch).sources
    ELSE LockfileRecords(
             ExtractWhole(GeneratorOf(e.path), packageName, e.body),
             e.path, RepoUrl, actualBranch)

RECURSIVE RecordsOfSound(_)
RecordsOfSound(es) ==
    IF es = <<>> THEN <<>>
    ELSE (IF FileFailed(Head(es)) THEN <<>> ELSE RecordsOfFile(Head(es)))
         \o RecordsOfSound(Tail(es))

\* C10: whatever subset of the discovered files fails to be fetched or
\* parsed, scanRepository processes every discovered file and returns
\* exactly the records of the files that did not fail; a failing file
\* contributes no record, also a lockfile whose stream fails after it has
\* yielded matches.
C10_FailureIsolatedPerFile ==
    ScanReturned =>
        /\ [i \in 1..Len(served) |-> served[i].path]
              = ManifestsOf(tree) \o LockfilesOf(tree)
        /\ scanSources = RecordsOfSound(served)

\* C10 witness: a returned scan in which a lockfile stream failed after it
\* had yielded a match, another file failed too, and a third file gave
\* records
C10_Witness ==
    /\ ScanReturned
    /\ \E i, j, k \in 1..Len(served) :
          /\ i # j
          /\ served[i].failure = "stream"
          /\ MatchesBeforeFailure(GeneratorOf(served[i].path), packageName,
                 SubSeq(served[i].body, 1, served[i].failAt)) # <<>>
          /\ FileFailed(served[j])
          /\ ~FileFailed(served[k])
          /\ RecordsOfFile(served[k]) # <<>>
    /\ scanSources # <<>>

-----------------------------------------------------------------------------
(* Classification of paths *)

\* the part of a path after its last "/"
RECURSIVE FileName(_)
FileName(path) ==
    LET i == indexOf(path, "/")
    IN IF i = 0 THEN path ELSE FileName(SubSeq(path, i + 1, Len(path)))

LockfileSuffixes == {"package-lock.json", "yarn.lock", "pnpm-lock.yaml", "bun.lock"}

InSeq(x, xs) == \E i \in 1..Len(xs) : xs[i] = x

\* the scan has classified the items of the tree
Classified == mode = "scan" /\ pc \in {"manifests", "lockfiles", "returned"}

\* C12: a path is handled as a manifest only when its file name is exactly
\* package.json, at any depth, and as a lockfile when it ends with
\* package-lock.json, yarn.lock, pnpm-lock.yaml or bun.lock; any other path
\* contributes nothing, no path is both, and package-lock.json is never a
\* manifest.
C12_ClassificationByFileName ==
    Classified =>
        \A i \in 1..Len(tree) :
            tree[i].type = "blob" =>
                LET path == tree[i].path
                IN /\ InSeq(path, manifestFiles)
                        <=> FileName(path) = "package.json"
                   /\ InSeq(path, lockfiles)
                        <=> \E x \in LockfileSuffixes : endsWith(path, x)
                   /\ ~(InSeq(path, manifestFiles) /\ InSeq(path, lockfiles))
                   /\ FileName(path) = "package-lock.json"
                        => ~InSeq(path, manifestFiles)

-----------------------------------------------------------------------------
(* Tagging of records *)

\* the manifest served for path is an object in which section d has pkg as
\* one of its own keys
FoundInSection(path, d, pkg) ==
    \E n \in 1..Len(served) :
        /\ served[n].path = path
        /\ served[n].failure = "none"
        /\ JsonParse(served[n].body).ok
        /\ JsonParse(served[n].body).v.t = "obj"
        /\ InSeq(d, OwnSections(JsonParse(served[n].body).v, pkg))

\* C13: in the result of a scan a record has type lockfile if and only if
\* its dependencyType is resolved, and a record of type manifest has a
\* dependencyType among dependencies, devDependencies, peerDependencies,
\* optionalDependencies, the section in which the package was found.
C13_DependencyTypeMatchesOrigin ==
    ScanReturned =>
        \A i \in 1..Len(scanSources) :
            LET r == scanSources[i]
            IN /\ (r.type = "lockfile") <=> (r.dependencyType = "resolved")
               /\ r.type = "manifest" =>
                     /\ InSeq(r.dependencyType, dependencyTypes)
                     /\ FoundInSection(r.path, r.dependencyType, packageName)

-----------------------------------------------------------------------------
(* Line links *)

\* the records of the result that come from path
RecordsAt(path) == SelectSeq(scanSources, LAMBDA r : r.path = path)

\* <repoUrl>/blob/<branch>/<filePath>#L<n> for the scan in progress
ExpectedLineUrl(path, n) ==
    "https://github.com/o/r" \o "/blob/" \o actualBranch \o "/" \o path
        \o "#L" \o ToString(n)

\* C14: every record of parseManifest and of parseLockfile has the lineUrl
\* <repoUrl>/blob/<branch>/<filePath>#L<n>, filePath being the record's own
\* path and n the line number the extractor attributed to the record.
C14_LineUrlNamesFileAndLine ==
    mode = "scan" =>
        \A e \in 1..Len(served) :
            LET path == served[e].path
                rs == RecordsAt(path)
                ms == ExtractWhole(GeneratorOf(path), packageName,
                                   served[e].body)
            IN IF isManifestFile(path)
               THEN \A j \in 1..Len(rs) :
                       rs[j].lineUrl =
                          ExpectedLineUrl(path,
                              findLineNumber(served[e].body, packageName,
                                             rs[j].dependencyType))
               ELSE rs # <<>> =>
                       /\ Len(rs) = Len(ms)
                       /\ \A j \in 1..Len(rs) :
                             rs[j].lineUrl =
                                ExpectedLineUrl(path, ms[j].lineNumber)

\* C14 witness: a scan of a named branch has returned a manifest record of
\* a nested path and a lockfile record, both beyond line 1
C14_Witness ==
    /\ ScanReturned
    /\ actualBranch = "dev"
    /\ \E i, j \in 1..Len(scanSources) :
          /\ scanSources[i].type = "manifest"
          /\ scanSources[i].lineUrl
                = "https://github.com/o/r/blob/dev/packages/app/package.json#L4"
          /\ scanSources[j].type = "lockfile"
          /\ scanSources[j].lineUrl
                = "https://github.com/o/r/blob/dev/pnpm-lock.yaml#L2"

-----------------------------------------------------------------------------
(* The line of a manifest record *)

\* the line, trimmed, begins with the quoted name followed by a colon
BeginsWithKey(l, name) ==
    LET trimmed == trim(l)
        after == SkipSpaces(trimmed, Len(name) + 3)
    IN /\ startsWith(trimmed, Quoted(name))
       /\ after <= Len(trimmed)
       /\ CharAt(trimmed, after) = ":"

\* line n of ls lies in the textual block of section d: from the first
\* line that opens d to the first line from there on that closes a brace
InBlockOf(ls, d, n) ==
    \E h \in 1..n :
        /\ BeginsWithKey(ls[h], d)
        /\ \A g \in 1..(h - 1) : ~BeginsWithKey(ls[g], d)
        /\ \A m \in h..(n - 1) : ~includes(ls[m], "}")

\* parseManifest has returned the records of a manifest that is an object
ManifestParsed ==
    /\ mode = "manifest" /\ pc = "returned"
    /\ JsonParse(manifest).ok /\ JsonParse(manifest).v.t = "obj"

\* the record links to line n of the manifest
LinksToLine(r, n) ==
    r.lineUrl = RepoUrl \o "/blob/" \o Branch \o "/" \o manifestPath
                    \o "#L" \o ToString(n)

\* C15: when the package is a key of section S, the line recovered for the
\* record of S is the position of a line inside S's own textual block that
\* begins with the quoted package name and a colon; with the package in
\* several sections each record points into its own section.
C15_LineLiesInOwnSection ==
    ManifestParsed =>
        \A i \in 1..Len(records) :
            InSeq(records[i].dependencyType,
                  OwnSections(JsonParse(manifest).v, packageName))
            => \E n \in 1..Len(split(manifest)) :
                  /\ LinksToLine(records[i], n)
                  /\ InBlockOf(split(manifest), records[i].dependencyType, n)
                  /\ BeginsWithKey(split(manifest)[n], packageName)

\* C16: the line number recovered by the manifest line scan lies between 1
\* and the number of lines of the content, and it is 1 whenever no line
\* inside the target section begins with the quoted package name.
C16_LineInRangeWithFallback ==
    (mode = "manifest" /\ pc = "returned") =>
        \A i \in 1..Len(records) :
            LET ls == split(manifest)
                d == records[i].dependencyType
            IN /\ \E n \in 1..Len(ls) : LinksToLine(records[i], n)
               /\ (~\E n \in 1..Len(ls) :
                       /\ InBlockOf(ls, d, n)
                       /\ BeginsWithKey(ls[n], packageName))
                  => LinksToLine(records[i], 1)

-----------------------------------------------------------------------------
(* VersionCollector: the collection *)

\* the characters of the inputs in the order of their code units
CodeUnits ==
    " \"'*+-./0123456789:<=>@ABCDEFGHIJKLMNOPQRSTUVWXYZ^_abcdefghijklmnopqrstuvwxyz~"

CodeOf(c) == CHOOSE i \in 1..Len(CodeUnits) : CharAt(CodeUnits, i) = c

\* a < b as Array.prototype.sort compares strings
RECURSIVE StringLess(_, _)
StringLess(a, b) ==
    IF b = "" THEN FALSE
    ELSE IF a = "" THEN TRUE
    ELSE IF CharAt(a, 1) = CharAt(b, 1)
    THEN StringLess(SubSeq(a, 2, Len(a)), SubSeq(b, 2, Len(b)))
    ELSE CodeOf(CharAt(a, 1)) < CodeOf(CharAt(b, 1))

\* a Set that adds an element whether or not it holds it already
SetAddAgain(set, v) == Append(set, v)

\* Set.prototype.add on a set kept in insertion order
SetAdd(set, v) == IF InSeq(v, set) THEN set ELSE Append(set, v)

\* a validation that lets every string through
isValidSemverForAll(version) == TRUE

\* the validation add applies to the normalized string
Accepts(version) == isValidSemver(version)

\* an add that creates the set of the key before it validates the version
addCreatingSetFirst(M, key, version) ==
    LET normalized == normalize(version)
        present == IF key \in DOMAIN M THEN M ELSE M @@ (key :> <<>>)
    IN IF ~Accepts(normalized) THEN present
       ELSE [present EXCEPT ![key] = SetAdd(@, normalized)]

\* VersionCollector.add: the map after add(key, version) on the map M
add(M, key, version) ==
    LET normalized == normalize(version)
    IN IF ~Accepts(normalized) THEN M
       ELSE LET present == IF key \in DOMAIN M THEN M ELSE M @@ (key :> <<>>)
            IN [present EXCEPT ![key] = SetAdd(@, normalized)]

\* the versions of a key in the order of their insertion
getVersionsInsertionOrder(M, key) ==
    IF key \notin DOMAIN M THEN <<>> ELSE M[key]

\* VersionCollector.getVersions
getVersions(M, key) ==
    IF key \notin DOMAIN M THEN <<>> ELSE SortSeq(M[key], StringLess)

\* the versions of the sets of the keys in K, added one by one to the set all
RECURSIVE AddAllOf(_, _, _)
AddAllOf(M, K, all) ==
    IF K = {} THEN all
    ELSE LET key == CHOOSE k \in K : TRUE
             RECURSIVE AddEach(_, _, _)
             AddEach(set, i, acc) ==
                 IF i > Len(set) THEN acc
                 ELSE AddEach(set, i + 1, SetAdd(acc, set[i]))
         IN AddAllOf(M, K \ {key}, AddEach(M[key], 1, all))

\* the versions of all keys, one after the other
RECURSIVE Concatenated(_, _)
Concatenated(M, K) ==
    IF K = {} THEN <<>>
    ELSE LET key == CHOOSE k \in K : TRUE
         IN M[key] \o Concatenated(M, K \ {key})

\* a listing of all versions that keeps what two keys share twice
getAllVersionsPerKey(M) == SortSeq(Concatenated(M, DOMAIN M), StringLess)

\* VersionCollector.getAllVersions
getAllVersions(M) == SortSeq(AddAllOf(M, DOMAIN M, <<>>), StringLess)

\* VersionCollector.size
size(M) == Len(getAllVersions(M))

-----------------------------------------------------------------------------
(* Inputs of the collector *)

\* the number of calls made on one collector
MaxOps == 3

CollectorKeys == {"k1", "k2"}

\* raw strings: versions and ranges, quoted and padded ones, references
\* that are no versions, and strings outside the grammar
RawVersions ==
    { "1.2.3", "^1.2.3", "~2.0", "1.0.0-rc.1+b.2",
      "\"1.2.3\"", "'1.2.3'", "\" 1.2.3 \"", " \"1.2.3\" ", "\"1.2.3", "\"1.2.3'",
      "workspace:*", "Workspace:^1.0.0", "link:../local", "file:./v",
      "git+https://h/r.git", "https://h/p.tgz", "github:u/r", "*", "latest",
      ">= 1.0.0", "1.2.3.4", "" }

-----------------------------------------------------------------------------
(* VersionCollector as a state machine *)

CollectorInit ==
    /\ mode = "collector"
    /\ packageName = ""
    /\ pc = "idle"
    /\ versions = <<>>
    /\ ops = <<>>
    /\ opCount = 0
    /\ LockIdle
    /\ ManifestIdle
    /\ ScanIdle
    /\ CacheIdle
    /\ KeyIdle
    /\ RouteIdle

\* collector.add(key, raw)
Add ==
    /\ mode = "collector" /\ opCount < MaxOps
    /\ \E key \in CollectorKeys, raw \in RawVersions :
          /\ versions' = add(versions, key, raw)
          /\ ops' = Append(ops, [key |-> key, raw |-> raw])
    /\ opCount' = opCount + 1
    /\ UNCHANGED <<mode, pc, notCollector>>

\* collector.clear()
Clear ==
    /\ mode = "collector" /\ opCount < MaxOps
    /\ versions' = <<>>
    /\ ops' = <<>>
    /\ opCount' = opCount + 1
    /\ UNCHANGED <<mode, pc, notCollector>>

CollectorNext == Add \/ Clear

SpecCollector == CollectorInit /\ [][CollectorNext]_vars

-----------------------------------------------------------------------------
(* Properties of the collector *)

\* the versions held under key
Stored(key) ==
    IF key \in DOMAIN versions
    THEN { versions[key][i] : i \in 1..Len(versions[key]) }
    ELSE {}

\* the raw strings added under key since the last clear
RawsAdded(key) == { ops[i].raw : i \in { j \in 1..Len(ops) : ops[j].key = key } }

\* raw without its surrounding whitespace and without one layer of quotes,
\* when the same quote character stands at both ends
TrimmedAndUnquoted(raw) ==
    LET t == trim(raw)
    IN IF /\ Len(t) >= 2
          /\ IsQuote(CharAt(t, 1))
          /\ CharAt(t, 1) = CharAt(t, Len(t))
       THEN trim(SubSeq(t, 2, Len(t) - 1))
       ELSE t

\* C17: add trims the surrounding whitespace and removes exactly one layer
\* of matching surrounding quotes, the whitespace lying inside or outside
\* the quotes; a raw string of the accepted grammar is stored unchanged
\* apart from that, and a quote at one end only, or two different quotes,
\* are not removed.
C17_AddTrimsAndUnquotes ==
    mode = "collector" =>
        \A key \in CollectorKeys :
            Stored(key) = { TrimmedAndUnquoted(raw) : raw \in
                              { r \in RawsAdded(key) :
                                  isValidSemver(TrimmedAndUnquoted(r)) } }

\* the string is a reference the collector must never hold
IsReference(v) ==
    \/ \E prefix \in {"workspace:", "link:", "file:", "git+", "http://",
                      "https://", "github:"} : StartsWithIgnoreCase(v, prefix)
    \/ startsWith(v, "*")
    \/ v = "latest"

\* C18: a raw string whose normalized form starts, in any letter case, with
\* workspace:, link:, file:, git+, http://, https:// or github:, starts
\* with *, or equals latest, is never stored, whatever follows the prefix.
C18_ReferencesNeverStored ==
    mode = "collector" =>
        \A i \in 1..Len(ops) :
            IsReference(normalize(ops[i].raw))
                => normalize(ops[i].raw) \notin Stored(ops[i].key)

\* C18 witness: a workspace reference followed by a range was added to a
\* key that holds a version, and is not held
C18_Witness ==
    /\ mode = "collector"
    /\ \E i \in 1..Len(ops) :
          /\ ops[i].raw = "Workspace:^1.0.0"
          /\ Stored(ops[i].key) = {"1.2.3"}

\* an optional range operator immediately followed by one to three
\* dot-separated integers and optional -prerelease and +build suffixes,
\* and nothing else
StrictVersionGrammar(v) ==
    LET a == SkipOperator(v)
        b == SkipDigits(v, a)
        c == SkipDotNumber(v, SkipDotNumber(v, b))
        d == SkipSuffix(v, SkipSuffix(v, c, "-"), "+")
    IN b > a /\ d = Len(v) + 1

\* C19: a normalized string that matches no exclusion pattern is accepted
\* if and only if it is an optional range operator (^ ~ >= <= > < =)
\* immediately followed by one to three dot-separated non-negative
\* integers, optionally followed by -prerelease and/or +buildmetadata of
\* alphanumeric, dot and hyphen characters, with no whitespace or other
\* character anywhere.
C19_AcceptedIffStrictGrammar ==
    mode = "collector" =>
        \A i \in 1..Len(ops) :
            LET v == normalize(ops[i].raw)
            IN ~Excluded(v) =>
                  (v \in Stored(ops[i].key) <=> StrictVersionGrammar(v))

\* the number of occurrences of v in seq
Occurrences(v, seq) == Cardinality({ i \in 1..Len(seq) : seq[i] = v })

\* C20: however often add(key, raw) is called with an accepted raw string,
\* and whatever other add calls come in between, getVersions(key) holds the
\* normalized version exactly once; adding a pair that is already present
\* changes nothing.
C20_AddIsIdempotent ==
    [][ mode = "collector" =>
          /\ \A i \in 1..Len(ops') :
                Accepts(normalize(ops'[i].raw)) =>
                    Occurrences(normalize(ops'[i].raw),
                                getVersions(versions', ops'[i].key)) = 1
          /\ (/\ Len(ops') = Len(ops) + 1
              /\ normalize(ops'[Len(ops')].raw) \in Stored(ops'[Len(ops')].key))
             => versions' = versions ]_vars

\* C20 witness: the same pair was added, then another version under the
\* same key, then the same pair again, and the key lists both versions once
C20_Witness ==
    /\ mode = "collector"
    /\ Len(ops) = 3
    /\ ops[1] = [key |-> "k1", raw |-> "^1.2.3"]
    /\ ops[2] = [key |-> "k1", raw |-> "\"1.2.3\""]
    /\ ops[3] = ops[1]
    /\ getVersions(versions, "k1") = <<"1.2.3", "^1.2.3">>

\* seq is strictly ascending in the order of Array.prototype.sort
Ascending(seq) == \A i \in 1..Len(seq) - 1 : StringLess(seq[i], seq[i + 1])

\* the elements of seq
Range(seq) == { seq[i] : i \in 1..Len(seq) }

\* the normalized versions accepted among the raw strings added under key
\* since the last clear
AcceptedSince(key) ==
    { normalize(r) : r \in { x \in RawsAdded(key) : Accepts(normalize(x)) } }

\* C21: after any sequence of add and clear, getVersions(key) is strictly
\* ascending in lexicographic order (so without duplicates) and holds
\* exactly the normalized accepted versions added under key since the last
\* clear; it is empty for a key never added to and for every key after
\* clear.
C21_GetVersionsSortedExact ==
    mode = "collector" =>
        \A key \in CollectorKeys :
            /\ Ascending(getVersions(versions, key))
            /\ Range(getVersions(versions, key)) = AcceptedSince(key)
            /\ RawsAdded(key) = {} => getVersions(versions, key) = <<>>

\* C21 witness: two versions were added under k1 in descending order and
\* are listed in ascending order, and k2, never added to, lists nothing
C21_Witness ==
    /\ mode = "collector"
    /\ Len(ops) = 2
    /\ ops[1] = [key |-> "k1", raw |-> "~2.0"]
    /\ ops[2] = [key |-> "k1", raw |-> "1.2.3"]
    /\ getVersions(versions, "k1") = <<"1.2.3", "~2.0">>
    /\ getVersions(versions, "k2") = <<>>

\* C22: after any sequence of add and clear, getAllVersions is the strictly
\* ascending listing of the union of the per-key sets and size is the
\* number of distinct versions of that union: a version held under two keys
\* counts once, and size is 0 after clear.
C22_GetAllIsUnionAndSizeCounts ==
    mode = "collector" =>
        LET union == UNION { Stored(key) : key \in CollectorKeys }
        IN /\ Ascending(getAllVersions(versions))
           /\ Range(getAllVersions(versions)) = union
           /\ size(versions) = Cardinality(union)
           /\ ops = <<>> => size(versions) = 0

\* C22 witness: one version is held under both keys and a second one under
\* k1 only, and size is 2
C22_Witness ==
    /\ mode = "collector"
    /\ Stored("k1") = {"1.2.3", "^1.2.3"}
    /\ Stored("k2") = {"1.2.3"}
    /\ getAllVersions(versions) = <<"1.2.3", "^1.2.3">>
    /\ size(versions) = 2

\* C23: add(key, raw) with a rejected raw string leaves the whole collector
\* as it was: no set is created for the key, and getVersions of every key,
\* getAllVersions and size are as before; add with an accepted raw string
\* changes the set of the given key only. No call of add raises an error.
C23_AddFrame ==
    [][ (mode = "collector" /\ Len(ops') = Len(ops) + 1) =>
          LET call == ops'[Len(ops')]
          IN IF ~isValidSemver(normalize(call.raw))
             THEN /\ versions' = versions
                  /\ DOMAIN versions' = DOMAIN versions
                  /\ \A key \in CollectorKeys :
                        getVersions(versions', key) = getVersions(versions, key)
                  /\ getAllVersions(versions') = getAllVersions(versions)
                  /\ size(versions') = size(versions)
             ELSE /\ \A key \in CollectorKeys \ {call.key} :
                        /\ key \in DOMAIN versions' <=> key \in DOMAIN versions
                        /\ getVersions(versions', key) = getVersions(versions, key)
                  /\ Range(getVersions(versions', call.key))
                        = Range(getVersions(versions, call.key))
                              \cup {normalize(call.raw)} ]_vars

\* C23 witness: a version was added under k1, then a rejected string under
\* k2, and the collector holds a set for k1 only
C23_Witness ==
    /\ mode = "collector"
    /\ Len(ops) = 2
    /\ ops[1] = [key |-> "k1", raw |-> "1.2.3"]
    /\ ops[2] = [key |-> "k2", raw |-> "latest"]
    /\ DOMAIN versions = {"k1"}
    /\ size(versions) = 1

-----------------------------------------------------------------------------
(* Scoped package names *)

\* the own entry of the package in a lockfile of kind k, every line
\* terminated
OwnEntry(k, p) ==
    IF k = "npm"
    THEN "\"node_modules/" \o p \o "\": {\n\"version\": \"1.0.0\",\n},\n"
    ELSE YarnHeader(p) \o "\n  version \"1.0.0\"\n"

\* C24: for a scoped package name @scope/name the npm extractor and the
\* yarn v1 extractor each yield the match of the package's own entry (npm
\* block "node_modules/@scope/name", yarn header "@scope/name@<range>":
\* followed by its version line) with the version written in that entry.
C24_ScopedEntryYieldsItsVersion ==
    (/\ mode = "lock" /\ pc = "done" /\ reader = "released"
     /\ kind \in {"npm", "yarn"}
     /\ packageName = "@s/ab"
     /\ text = OwnEntry(kind, packageName))
        => Versions(out) = <<"1.0.0">>

-----------------------------------------------------------------------------
(* Early termination *)

\* C25: each lockfile parser terminates early: once the block of the
\* package has been read and closed (a match was yielded, no block is open)
\* and nothing of what is left of the file mentions the package, the parser
\* awaits no further read, so the remainder is not transferred.
C25_NoReadOnceBlockClosed ==
    (/\ mode = "lock"
     /\ Len(out) >= 1
     /\ ~inPackageBlock
     /\ rest # ""
     /\ ~includes(buffer \o rest, packageName))
        => pc # "read"

-----------------------------------------------------------------------------
(* LRUCache: the operations on the Map, whose entries are kept here as a   *)
(* sequence in the order of the Map, the oldest first.                     *)

DEFAULT_MAX_AGE_MS == 60 * 60 * 1000

\* what get returns for a key it does not serve
NoValue == "undefined"

\* the position of key in the Map, 0 if it has none
EntryIndex(C, key) ==
    IF \E i \in 1..Len(C) : C[i].key = key
    THEN CHOOSE i \in 1..Len(C) : C[i].key = key
    ELSE 0

\* Map.prototype.delete
MapDelete(C, key) == SelectSeq(C, LAMBDA e : e.key # key)

\* a test that lets a capacity of zero through
NegativeMaxSize(cap) == cap < 0

\* the constructor's test of its first argument
InvalidMaxSize(cap) == cap < 1

\* the constructor's second parameter with its default; the argument is a
\* sequence of no or one number
MaxAgeParameter(argument) ==
    IF argument = <<>> THEN DEFAULT_MAX_AGE_MS ELSE argument[1]

\* an expiry test that already fails at the time of expiry
ExpiredAtDeadline(entry, t) == t >= entry.expiresAt

\* the test of get and has on the entry they found, at time t
Expired(entry, t) == t > entry.expiresAt

\* a get that serves the entry and leaves it where it is in the Map
LeftInPlace(C, key, entry) == [cache |-> C, ret |-> entry.value]

\* the entry get found, served: moved to the end of the Map
MovedToEnd(C, key, entry) ==
    [cache |-> Append(MapDelete(C, key), entry), ret |-> entry.value]

\* the entry get or has found, past its expiry: deleted
Dropped(C, key, ret) == [cache |-> MapDelete(C, key), ret |-> ret]

\* LRUCache.get at time t: the Map after the call and the value returned
LRUCacheGet(C, key, t) ==
    IF EntryIndex(C, key) = 0 THEN [cache |-> C, ret |-> NoValue]
    ELSE IF Expired(C[EntryIndex(C, key)], t) THEN Dropped(C, key, NoValue)
    ELSE MovedToEnd(C, key, C[EntryIndex(C, key)])

\* a set that removes nothing when the cache is full
MadeRoomWithoutEviction(C, key, cap) ==
    IF EntryIndex(C, key) # 0 THEN MapDelete(C, key) ELSE C

\* the Map after the first branch or the second of set
MadeRoom(C, key, cap) ==
    IF EntryIndex(C, key) # 0 THEN MapDelete(C, key)
    ELSE IF Len(C) >= cap /\ Len(C) > 0 THEN Tail(C)
    ELSE C

\* LRUCache.set at time t, in a cache of capacity cap and max-age m
LRUCacheSet(C, key, value, t, cap, m) ==
    Append(MadeRoom(C, key, cap),
           [key |-> key, value |-> value, expiresAt |-> t + m])

\* LRUCache.has at time t: the Map after the call and the answer
LRUCacheHas(C, key, t) ==
    IF EntryIndex(C, key) = 0 THEN [cache |-> C, ret |-> "false"]
    ELSE IF Expired(C[EntryIndex(C, key)], t) THEN Dropped(C, key, "false")
    ELSE [cache |-> C, ret |-> "true"]

\* LRUCache.delete
LRUCacheDelete(C, key) ==
    [cache |-> MapDelete(C, key),
     ret |-> IF EntryIndex(C, key) # 0 THEN "true" ELSE "false"]

\* LRUCache.clear
LRUCacheClear(C) == <<>>

\* LRUCache.size
LRUCacheSize(C) == Len(C)

-----------------------------------------------------------------------------
(* Inputs of the cache *)

\* the number of steps taken on one cache: calls and advances of the clock
MaxCacheOps == 5

CacheKeys == {"a", "b", "c"}

CacheValues == {"v1", "v2"}

\* capacities handed to the constructor
MaxSizes == {-1, 0, 1, 2}

\* second arguments of the constructor: none, or a number of milliseconds
MaxAgeArguments == {<<>>, <<1>>, <<2>>}

\* by how much the clock advances between two calls
Ticks(m) == {1, m}

-----------------------------------------------------------------------------
(* LRUCache as a state machine *)

CacheInit ==
    /\ mode = "cache"
    /\ packageName = ""
    /\ pc = "new"
    /\ cache = <<>>
    /\ maxSize \in MaxSizes
    /\ maxAgeMs \in { MaxAgeParameter(a) : a \in MaxAgeArguments }
    /\ now = 0
    /\ result = [op |-> "none", key |-> "", value |-> "", ret |-> NoValue]
    /\ lastUse = [k \in CacheKeys |-> 0]
    /\ setAt = [k \in CacheKeys |-> 0]
    /\ cacheOps = 0
    /\ LockIdle
    /\ ManifestIdle
    /\ ScanIdle
    /\ CollectorIdle
    /\ KeyIdle
    /\ RouteIdle

\* new LRUCache(maxSize, maxAgeMs) returns the cache
Construct ==
    /\ mode = "cache" /\ pc = "new"
    /\ ~InvalidMaxSize(maxSize)
    /\ pc' = "ready"
    /\ cache' = <<>>
    /\ result' = [op |-> "new", key |-> "", value |-> "", ret |-> NoValue]
    /\ UNCHANGED <<mode, maxSize, maxAgeMs, now, lastUse, setAt, cacheOps,
                   notCache>>

\* new LRUCache(maxSize, maxAgeMs) throws
ConstructThrows ==
    /\ mode = "cache" /\ pc = "new"
    /\ InvalidMaxSize(maxSize)
    /\ pc' = "threw"
    /\ result' = [op |-> "new", key |-> "", value |-> "",
                  ret |-> "Cache maxSize must be at least 1"]
    /\ UNCHANGED <<mode, cache, maxSize, maxAgeMs, now, lastUse, setAt,
                   cacheOps, notCache>>

\* a call on the constructed cache
Called == mode = "cache" /\ pc = "ready" /\ cacheOps < MaxCacheOps

\* cache.set(key, value)
CacheSet ==
    /\ Called
    /\ \E key \in CacheKeys, value \in CacheValues :
          /\ cache' = LRUCacheSet(cache, key, value, now, maxSize, maxAgeMs)
          /\ result' = [op |-> "set", key |-> key, value |-> value,
                        ret |-> NoValue]
          /\ lastUse' = [lastUse EXCEPT ![key] = cacheOps + 1]
          /\ setAt' = [setAt EXCEPT ![key] = now]
    /\ cacheOps' = cacheOps + 1
    /\ UNCHANGED <<mode, pc, maxSize, maxAgeMs, now, notCache>>

\* cache.get(key)
CacheGet ==
    /\ Called
    /\ \E key \in CacheKeys :
          /\ cache' = LRUCacheGet(cache, key, now).cache
          /\ result' = [op |-> "get", key |-> key, value |-> "",
                        ret |-> LRUCacheGet(cache, key, now).ret]
          /\ lastUse' = IF LRUCacheGet(cache, key, now).ret # NoValue
                        THEN [lastUse EXCEPT ![key] = cacheOps + 1]
                        ELSE lastUse
    /\ cacheOps' = cacheOps + 1
    /\ UNCHANGED <<mode, pc, maxSize, maxAgeMs, now, setAt, notCache>>

\* cache.has(key)
CacheHas ==
    /\ Called
    /\ \E key \in CacheKeys :
          /\ cache' = LRUCacheHas(cache, key, now).cache
          /\ result' = [op |-> "has", key |-> key, value |-> "",
                        ret |-> LRUCacheHas(cache, key, now).ret]
    /\ cacheOps' = cacheOps + 1
    /\ UNCHANGED <<mode, pc, maxSize, maxAgeMs, now, lastUse, setAt, notCache>>

\* cache.delete(key)
CacheDelete ==
    /\ Called
    /\ \E key \in CacheKeys :
          /\ cache' = LRUCacheDelete(cache, key).cache
          /\ result' = [op |-> "delete", key |-> key, value |-> "",
                        ret |-> LRUCacheDelete(cache, key).ret]
    /\ cacheOps' = cacheOps + 1
    /\ UNCHANGED <<mode, pc, maxSize, maxAgeMs, now, lastUse, setAt, notCache>>

\* cache.clear()
CacheClear ==
    /\ Called
    /\ cache' = LRUCacheClear(cache)
    /\ result' = [op |-> "clear", key |-> "", value |-> "", ret |-> NoValue]
    /\ cacheOps' = cacheOps + 1
    /\ UNCHANGED <<mode, pc, maxSize, maxAgeMs, now, lastUse, setAt, notCache>>

\* time passes between two calls
Tick ==
    /\ Called
    /\ \E d \in Ticks(maxAgeMs) : now' = now + d
    /\ result' = [op |-> "tick", key |-> "", value |-> "", ret |-> NoValue]
    /\ cacheOps' = cacheOps + 1
    /\ UNCHANGED <<mode, pc, cache, maxSize, maxAgeMs, lastUse, setAt, notCache>>

CacheNext ==
    \/ Construct
    \/ ConstructThrows
    \/ CacheSet
    \/ CacheGet
    \/ CacheHas
    \/ CacheDelete
    \/ CacheClear
    \/ Tick

SpecCache == CacheInit /\ [][CacheNext]_vars

-----------------------------------------------------------------------------
(* Properties of the cache *)

\* the keys held by the Map
KeysOf(C) == { C[i].key : i \in 1..Len(C) }

\* C26: a cache built with a capacity maxSize >= 1 holds at most maxSize
\* entries after any sequence of set, get, has, delete and clear, and one
\* set removes at most one other entry.
C26_SizeBoundedByMaxSize ==
    [][ (mode = "cache" /\ pc' = "ready") =>
          /\ LRUCacheSize(cache') <= maxSize
          /\ Cardinality(KeysOf(cache')) = LRUCacheSize(cache')
          /\ result'.op = "set" =>
                Cardinality(KeysOf(cache) \ KeysOf(cache')) <= 1 ]_vars

\* C26 witness: three different keys were set in a cache of capacity 2,
\* which holds two entries
C26_Witness ==
    /\ mode = "cache" /\ pc = "ready"
    /\ maxSize = 2
    /\ cacheOps = 3
    /\ result.op = "set"
    /\ \A k \in CacheKeys : lastUse[k] > 0
    /\ LRUCacheSize(cache) = 2

\* the entries of the Map stand in the order of their most recent use
RecencyOrdered(C, use) ==
    \A i \in 1..Len(C) - 1 : use[C[i].key] < use[C[i + 1].key]

\* the step is a call of op on the cache
CallOf(op) == mode = "cache" /\ cacheOps' = cacheOps + 1 /\ result'.op = op

\* what a set does to the entries: a new key in a full cache removes the
\* entry whose most recent use is the oldest and no other; a key already
\* present evicts nothing and keeps the size; the key set holds the new
\* value and is the most recently used
SetEvictsLeastRecentlyUsed ==
    CallOf("set") =>
        /\ IF result'.key \notin KeysOf(cache) /\ LRUCacheSize(cache) >= maxSize
           THEN \E victim \in KeysOf(cache) :
                   /\ \A j \in KeysOf(cache) : lastUse[victim] <= lastUse[j]
                   /\ KeysOf(cache') = (KeysOf(cache) \ {victim}) \cup {result'.key}
           ELSE KeysOf(cache') = KeysOf(cache) \cup {result'.key}
        /\ result'.key \in KeysOf(cache)
              => LRUCacheSize(cache') = LRUCacheSize(cache)
        /\ cache'[EntryIndex(cache', result'.key)].value = result'.value
        /\ \A j \in KeysOf(cache') \ {result'.key} :
              lastUse'[j] < lastUse'[result'.key]

\* the entry a set of a new key would evict, if any
NextVictim(C, cap) == IF Len(C) >= cap /\ Len(C) > 0 THEN {C[1].key} ELSE {}

\* has leaves the Map as it is, except that it removes the entry it was
\* asked about when that entry has expired
HasRemovesOnlyExpired ==
    CallOf("has") =>
        cache' = IF /\ result'.key \in KeysOf(cache)
                    /\ now > setAt[result'.key] + maxAgeMs
                 THEN MapDelete(cache, result'.key)
                 ELSE cache

\* has leaves the entry the next set would evict as it is
HasKeepsNextVictim ==
    CallOf("has") => NextVictim(cache', maxSize) = NextVictim(cache, maxSize)

\* C27 (amended): when set inserts a key that is not in a cache already
\* holding maxSize entries, the entry removed is the one whose most recent
\* use is the oldest, a use being a set of the key or a get that returned
\* its value; has never counts as a use, leaves the cache unchanged when
\* the entry has not expired and removes only that entry when it has;
\* setting a key already present replaces its value, makes it the most
\* recently used, keeps the size and evicts nothing.
C27_EvictsLeastRecentlyUsed ==
    [][ /\ mode = "cache" => RecencyOrdered(cache', lastUse')
        /\ SetEvictsLeastRecentlyUsed
        /\ HasRemovesOnlyExpired ]_vars

\* C27 witness: in a cache of capacity 2, a and b were set, a was used
\* again, and the set of c removed b
C27_Witness ==
    /\ mode = "cache" /\ pc = "ready"
    /\ maxSize = 2
    /\ cacheOps = 4
    /\ result.op = "set" /\ result.key = "c"
    /\ lastUse = [a |-> 3, b |-> 2, c |-> 4]
    /\ KeysOf(cache) = {"a", "c"}

\* C27 as stated: the same, with has never changing which entry is evicted
\* next.
C27_HasNeverChangesNextEviction ==
    [][ /\ mode = "cache" => RecencyOrdered(cache', lastUse')
        /\ SetEvictsLeastRecentlyUsed
        /\ HasKeepsNextVictim ]_vars

\* the entry held for key
EntryOf(C, key) == C[EntryIndex(C, key)]

\* the last time at which the entry held for key is served
Deadline(key) == setAt[key] + maxAgeMs

\* get on a key the cache holds
GetWithinMaxAge ==
    (CallOf("get") /\ result'.key \in KeysOf(cache)) =>
        IF now <= Deadline(result'.key)
        THEN /\ result'.ret = EntryOf(cache, result'.key).value
             /\ result'.key \in KeysOf(cache')
             /\ cache'[Len(cache')] = EntryOf(cache, result'.key)
             /\ cache'[Len(cache')].expiresAt = Deadline(result'.key)
        ELSE /\ result'.ret = NoValue
             /\ result'.key \notin KeysOf(cache')

\* has on a key the cache holds
HasWithinMaxAge ==
    (CallOf("has") /\ result'.key \in KeysOf(cache)) =>
        IF now <= Deadline(result'.key)
        THEN /\ result'.ret = "true"
             /\ cache' = cache
        ELSE /\ result'.ret = "false"
             /\ result'.key \notin KeysOf(cache')

\* a set starts the max-age of its key anew
SetRestartsMaxAge ==
    CallOf("set") =>
        /\ EntryOf(cache', result'.key).expiresAt = now + maxAgeMs
        /\ setAt'[result'.key] + maxAgeMs' = now + maxAgeMs

\* C28: an entry set at time t in a cache with max-age m, while the cache
\* holds it, is returned by get and reported by has at every time up to and
\* including t + m; at any later time get returns undefined, has returns
\* false and the access removes the entry; a successful get makes the entry
\* the most recently used and leaves its expiry as it was, and a set of the
\* same key restarts it.
C28_ServedUntilMaxAge ==
    [][ GetWithinMaxAge /\ HasWithinMaxAge /\ SetRestartsMaxAge ]_vars

\* C28 witness: get served an entry set earlier at the very end of its
\* max-age
C28_Witness ==
    /\ mode = "cache" /\ pc = "ready"
    /\ result.op = "get"
    /\ result.ret # NoValue
    /\ now > setAt[result.key]
    /\ now = Deadline(result.key)

\* C29: constructing an LRUCache with a capacity below 1 (zero or negative)
\* fails at once with the error "Cache maxSize must be at least 1", so no
\* cache with such a capacity ever receives a call.
C29_NonPositiveCapacityRejected ==
    (mode = "cache" /\ pc # "new") =>
        IF maxSize < 1
        THEN /\ pc = "threw"
             /\ result.op = "new"
             /\ result.ret = "Cache maxSize must be at least 1"
             /\ cacheOps = 0
             /\ cache = <<>>
        ELSE pc = "ready"

\* C29 witness: the constructor called with capacity 0 has thrown
C29_Witness ==
    /\ mode = "cache"
    /\ maxSize = 0
    /\ pc = "threw"
    /\ result.ret = "Cache maxSize must be at least 1"

-----------------------------------------------------------------------------
(* Request validation and the cache key *)

\* [a-zA-Z0-9-]
IsOwnerChar(c) == IsLetter(c) \/ IsDigit(c) \/ c = "-"

\* [a-zA-Z0-9-._]
IsRepoChar(c) == IsOwnerChar(c) \/ c = "." \/ c = "_"

\* [a-zA-Z0-9_-]
IsScopeChar(c) == IsOwnerChar(c) \/ c = "_"

\* ^[a-zA-Z0-9-]+$
ownerSchema(s) == Len(s) >= 1 /\ \A i \in 1..Len(s) : IsOwnerChar(CharAt(s, i))

\* ^[a-zA-Z0-9-._]+$
repoSchema(s) == Len(s) >= 1 /\ \A i \in 1..Len(s) : IsRepoChar(CharAt(s, i))

\* the end of the optional group (@[a-zA-Z0-9_-]+/)? taken at the start of s:
\* the position after it, or 1 when s does not start with the group
ScopeEnd(s) ==
    IF /\ Len(s) >= 3
       /\ CharAt(s, 1) = "@"
       /\ \E j \in 3..Len(s) :
             /\ CharAt(s, j) = "/"
             /\ \A i \in 2..(j - 1) : IsScopeChar(CharAt(s, i))
    THEN 1 + CHOOSE j \in 3..Len(s) :
                 /\ CharAt(s, j) = "/"
                 /\ \A i \in 2..(j - 1) : IsScopeChar(CharAt(s, i))
    ELSE 1

\* ^(@[a-zA-Z0-9_-]+/)?[a-zA-Z0-9_.-]+$ with minLength 1 and maxLength 214
packageSchema(s) ==
    /\ Len(s) >= 1 /\ Len(s) <= 214
    /\ ScopeEnd(s) <= Len(s)
    /\ \A i \in ScopeEnd(s)..Len(s) : IsRepoChar(CharAt(s, i))

\* pathParamsSchema
pathParamsSchema(p) ==
    ownerSchema(p.owner) /\ repoSchema(p.repo) /\ packageSchema(p.pkg)

\* the null character of the key; TLA+ strings have no escape for it, and
\* the form feed stands for it: a control character of no accepted alphabet
NUL == "\f"

\* a key that joins the three components without a separator
generateCacheKeyUnseparated(owner, repo, pkg) == owner \o repo \o pkg

\* generateCacheKey
generateCacheKey(owner, repo, pkg) == owner \o NUL \o repo \o NUL \o pkg

-----------------------------------------------------------------------------
(* Inputs of the requests *)

\* the number of requests of one behaviour
MaxRequests == 2

Owners == {"a", "ab", "a/b"}

Repos == {"b", "b.c", "b c"}

Packages == {"c", "bc", "@s/c", "s/c"}

PathParams == [owner : Owners, repo : Repos, pkg : Packages]

-----------------------------------------------------------------------------
(* The route's validation and key generation as a state machine *)

KeyInit ==
    /\ mode = "key"
    /\ packageName = ""
    /\ pc = "requests"
    /\ requests \in [1..MaxRequests -> PathParams]
    /\ generated = <<>>
    /\ LockIdle
    /\ ManifestIdle
    /\ ScanIdle
    /\ CollectorIdle
    /\ CacheIdle
    /\ RouteIdle

\* the request that is handled next
Pending == requests[Len(generated) + 1]

\* the params of the next request fail validation: no key is generated
RequestRejected ==
    /\ mode = "key" /\ Len(generated) < Len(requests)
    /\ ~pathParamsSchema(Pending)
    /\ generated' = Append(generated, "")
    /\ UNCHANGED <<mode, packageName, pc, requests, lockVars, manifestVars,
                   scanVars, collectorVars, cacheVars, routeVars>>

\* the handler of the next request generates its cache key
RequestKeyed ==
    /\ mode = "key" /\ Len(generated) < Len(requests)
    /\ pathParamsSchema(Pending)
    /\ generated' = Append(generated,
                           generateCacheKey(Pending.owner, Pending.repo,
                                            Pending.pkg))
    /\ UNCHANGED <<mode, packageName, pc, requests, lockVars, manifestVars,
                   scanVars, collectorVars, cacheVars, routeVars>>

KeyNext == RequestRejected \/ RequestKeyed

SpecKey == KeyInit /\ [][KeyNext]_vars

\* C30: generateCacheKey is injective on the triples accepted by request
\* validation: two accepted triples (owner, repo, pkg) that differ in at
\* least one component, scoped package names with a / included, have
\* different keys.
C30_CacheKeyInjective ==
    mode = "key" =>
        \A i, j \in 1..Len(generated) :
            (/\ pathParamsSchema(requests[i])
             /\ pathParamsSchema(requests[j])
             /\ requests[i] # requests[j])
                => generated[i] # generated[j]

\* C30 witness: two accepted requests whose components concatenate to the
\* same string have different keys
C30_Witness ==
    /\ mode = "key"
    /\ Len(generated) = 2
    /\ requests[1] = [owner |-> "a", repo |-> "b", pkg |-> "bc"]
    /\ requests[2] = [owner |-> "ab", repo |-> "b", pkg |-> "c"]
    /\ generated[1] # generated[2]
    /\ generated[1] # ""

-----------------------------------------------------------------------------
(* GitHubClient.handleResponse and the error handler of the application *)

\* the value of a decimal digit
DigitValue(c) == CHOOSE n \in 0..9 : SubSeq("0123456789", n + 1, n + 1) = c

\* the number written by the digits of s from position i on
RECURSIVE DecimalValue(_, _, _)
DecimalValue(s, i, acc) ==
    IF i <= Len(s) /\ IsDigit(CharAt(s, i))
    THEN DecimalValue(s, i + 1, acc * 10 + DigitValue(CharAt(s, i)))
    ELSE acc

\* parseInt(s, 10) on unsigned input: <<n>>, or <<>> for NaN
parseInt(s) ==
    IF SkipDigits(s, SkipSpaces(s, 1)) = SkipSpaces(s, 1) THEN <<>>
    ELSE <<DecimalValue(s, SkipSpaces(s, 1), 0)>>

\* parseIntMorph on a header value, <<>> for null and <<s>> for a string:
\* <<n>>, or <<>> when the morph fails (null is no string, NaN throws)
parseIntMorph(header) == IF header = <<>> THEN <<>> ELSE parseInt(header[1])

\* rateLimitHeaderSchema on the raw header values: <<info>> when all four
\* numbers parse, <<>> for type.errors
rateLimitHeaderSchema(raw) ==
    IF \/ parseIntMorph(raw.limit) = <<>>
       \/ parseIntMorph(raw.remaining) = <<>>
       \/ parseIntMorph(raw.reset) = <<>>
       \/ parseIntMorph(raw.used) = <<>>
    THEN <<>>
    ELSE <<[limit |-> parseIntMorph(raw.limit)[1],
            remaining |-> parseIntMorph(raw.remaining)[1],
            reset |-> parseIntMorph(raw.reset)[1],
            used |-> parseIntMorph(raw.used)[1],
            resource |-> raw.resource]>>

\* what a call leaves: an error, or nothing thrown
GitHubApiError(statusCode) == [name |-> "GitHubApiError", statusCode |-> statusCode]

OtherError == [name |-> "Error", statusCode |-> 0]

NoError == [name |-> "none", statusCode |-> 0]

\* Response.ok
ResponseOk(response) == response.status >= 200 /\ response.status <= 299

\* this.lastRateLimitInfo after handleResponse captured the headers
lastRateLimitInfo(response) == rateLimitHeaderSchema(response.headers)

\* handleResponse: the error it throws, NoError when it returns the body
handleResponse(response) ==
    IF response.status = 404 THEN GitHubApiError(404)
    ELSE IF /\ response.status = 403
            /\ lastRateLimitInfo(response) # <<>>
            /\ lastRateLimitInfo(response)[1].remaining = 0
         THEN GitHubApiError(502)
    ELSE IF ~ResponseOk(response) THEN GitHubApiError(response.status)
    ELSE NoError

\* onError: the status it sets for an error with Elysia's code
onError(code, error) ==
    IF error.name = "GitHubApiError" THEN error.statusCode
    ELSE IF code = "VALIDATION" THEN 400
    ELSE IF code = "NOT_FOUND" THEN 404
    ELSE 500

-----------------------------------------------------------------------------
(* The crawl route with the response cache *)

\* the capacity of responseCache
ResponseCacheSize == 1000

\* the ApiResponse of the handler, written as text
ApiResponse(p, sources) == p.owner \o "/" \o p.repo \o " " \o p.pkg \o " " \o sources

\* a key that leaves the package out
CacheKeyOfRepository(p) == generateCacheKey(p.owner, p.repo, "")

\* the handler's cache key
CacheKeyOf(p) == generateCacheKey(p.owner, p.repo, p.pkg)

-----------------------------------------------------------------------------
(* Inputs of the crawl route *)

\* the number of concurrent requests of one behaviour
MaxClients == 2

\* how many times the clock passes the max-age of the cache
MaxExpiries == 1

RouteParams ==
    { [owner |-> "a", repo |-> "b", pkg |-> "c"],
      [owner |-> "a", repo |-> "b", pkg |-> "bc"],
      [owner |-> "a/b", repo |-> "b", pkg |-> "c"] }

\* what a scan can find in the repository at the time it runs
SourcesFound == {"s1", "s2"}

\* header values: null or a string
RateLimitHeaders ==
    [limit : {<<>>, <<"5000">>}, remaining : {<<"0">>, <<"1">>},
     reset : {<<"1">>}, used : {<<"2">>}, resource : {<<"core">>}]

\* the answers of the GitHub API that are not ok
Answers == [status : {403, 404, 500}, headers : RateLimitHeaders]

NoAnswer ==
    [status |-> 0,
     headers |-> [limit |-> <<>>, remaining |-> <<>>, reset |-> <<>>,
                  used |-> <<>>, resource |-> <<>>]]

-----------------------------------------------------------------------------
(* The crawl route as a state machine: the handlers of concurrent requests
   interleave at the await of scanRepository *)

Received(p) ==
    [params |-> p, pc |-> "received", status |-> 0, body |-> "",
     xcache |-> "", scans |-> 0, githubCalls |-> 0, answer |-> NoAnswer,
     error |-> NoError]

RouteInit ==
    /\ mode = "route"
    /\ packageName = ""
    /\ pc = "serving"
    /\ handlers \in [1..MaxClients -> { Received(p) : p \in RouteParams }]
    /\ completed = {}
    /\ cache = <<>>
    /\ maxSize = ResponseCacheSize
    /\ maxAgeMs = DEFAULT_MAX_AGE_MS
    /\ now = 0
    /\ result = <<>>
    /\ lastUse = <<>>
    /\ setAt = <<>>
    /\ cacheOps = 0
    /\ LockIdle
    /\ ManifestIdle
    /\ ScanIdle
    /\ CollectorIdle
    /\ KeyIdle

\* what the route leaves alone
RouteFrame ==
    UNCHANGED <<mode, packageName, pc, maxSize, maxAgeMs, result, lastUse,
                setAt, cacheOps, lockVars, manifestVars, scanVars,
                collectorVars, keyVars>>

\* the handler of request i answers
Responds(i, status, body, error, answer) ==
    handlers' = [handlers EXCEPT ![i].pc = "responded", ![i].status = status,
                                 ![i].body = body, ![i].error = error,
                                 ![i].answer = answer]

\* the params of request i fail validation: onError answers, no handler runs
Rejected(i) ==
    /\ mode = "route" /\ handlers[i].pc = "received"
    /\ ~pathParamsSchema(handlers[i].params)
    /\ Responds(i, onError("VALIDATION", OtherError), "", OtherError, NoAnswer)
    /\ UNCHANGED <<cache, now, completed>>
    /\ RouteFrame

\* the handler of request i up to its return or its await: got is what
\* responseCache.get returned and left
Handled(i, got) ==
    /\ cache' = got.cache
    /\ IF got.ret # NoValue
       THEN handlers' = [handlers EXCEPT ![i].pc = "responded",
                                         ![i].status = 200,
                                         ![i].body = got.ret,
                                         ![i].xcache = "HIT"]
       ELSE handlers' = [handlers EXCEPT ![i].pc = "scanning",
                                         ![i].xcache = "MISS",
                                         ![i].scans = 1,
                                         ![i].githubCalls = 1]

Handler(i) ==
    /\ mode = "route" /\ handlers[i].pc = "received"
    /\ pathParamsSchema(handlers[i].params)
    /\ Handled(i, LRUCacheGet(cache, CacheKeyOf(handlers[i].params), now))
    /\ UNCHANGED <<now, completed>>
    /\ RouteFrame

\* scanRepository resolves: the handler stores the response and returns it
ScanSucceeds(i) ==
    /\ mode = "route" /\ handlers[i].pc = "scanning"
    /\ \E sources \in SourcesFound :
        /\ cache' = LRUCacheSet(cache, CacheKeyOf(handlers[i].params),
                                ApiResponse(handlers[i].params, sources),
                                now, maxSize, maxAgeMs)
        /\ completed' = completed \cup
                {[params |-> handlers[i].params,
                  response |-> ApiResponse(handlers[i].params, sources)]}
        /\ Responds(i, 200, ApiResponse(handlers[i].params, sources),
                    NoError, NoAnswer)
    /\ UNCHANGED now
    /\ RouteFrame

\* a call of the scan on the GitHub API is answered with a status that is
\* not ok: handleResponse throws, scanRepository rejects, onError answers
GitHubRefuses(i) ==
    /\ mode = "route" /\ handlers[i].pc = "scanning"
    /\ \E answer \in Answers :
        Responds(i, onError("UNKNOWN", handleResponse(answer)), "",
                 handleResponse(answer), answer)
    /\ UNCHANGED <<cache, now, completed>>
    /\ RouteFrame

\* the scan rejects with an error that is no GitHubApiError
ScanThrows(i) ==
    /\ mode = "route" /\ handlers[i].pc = "scanning"
    /\ Responds(i, onError("UNKNOWN", OtherError), "", OtherError, NoAnswer)
    /\ UNCHANGED <<cache, now, completed>>
    /\ RouteFrame

\* time passes until the entries stored so far are past their max-age
RouteTick ==
    /\ mode = "route"
    /\ now < MaxExpiries * (DEFAULT_MAX_AGE_MS + 1)
    /\ now' = now + DEFAULT_MAX_AGE_MS + 1
    /\ UNCHANGED <<cache, handlers, completed>>
    /\ RouteFrame

RouteNext ==
    \/ \E i \in DOMAIN handlers :
        Rejected(i) \/ Handler(i) \/ ScanSucceeds(i) \/ GitHubRefuses(i)
            \/ ScanThrows(i)
    \/ RouteTick

SpecRoute == RouteInit /\ [][RouteNext]_vars

-----------------------------------------------------------------------------
(* HTTP status of a crawl request *)

\* the requests that have been answered
Answered == { i \in DOMAIN handlers : handlers[i].pc = "responded" }

\* the GitHub API answered 403 with X-RateLimit-Remaining: 0
RateLimited(answer) ==
    answer.status = 403 /\ answer.headers.remaining = <<"0">>

\* C31: a GitHub API answer 404 gives 404; a GitHub API answer 403 whose
\* X-RateLimit-Remaining header is 0 gives 502, whatever the other
\* rate-limit headers contain; a request whose owner, repo or pkg fails
\* validation gives 400 without any GitHub call; any other unexpected error
\* gives 500.
C31_StatusOfCrawlRequest ==
    mode = "route" =>
        \A i \in Answered :
            /\ handlers[i].answer.status = 404 => handlers[i].status = 404
            /\ RateLimited(handlers[i].answer) => handlers[i].status = 502
            /\ ~pathParamsSchema(handlers[i].params)
                    => handlers[i].status = 400 /\ handlers[i].githubCalls = 0
            /\ (handlers[i].error.name = "Error"
                    /\ pathParamsSchema(handlers[i].params))
                    => handlers[i].status = 500

-----------------------------------------------------------------------------
(* Crawl route and response cache *)

\* the value of the live entry of key in C at time t, NoValue if it has none
LiveEntry(C, key, t) ==
    IF EntryIndex(C, key) = 0 \/ Expired(C[EntryIndex(C, key)], t)
    THEN NoValue
    ELSE C[EntryIndex(C, key)].value

\* the keys and values of the entries of C
Entries(C) == { [key |-> C[n].key, value |-> C[n].value] : n \in 1..Len(C) }

\* the handler of request i runs up to its return or its await
Looks(i) == handlers[i].pc = "received" /\ handlers'[i].pc # "received"

\* the scan of request i ends
ScanEnds(i) == handlers[i].pc = "scanning" /\ handlers'[i].pc = "responded"

\* a request whose key has a live entry returns it and starts no scan; one
\* whose key has none scans
LookupServesLiveEntry ==
    \A i \in DOMAIN handlers :
        (Looks(i) /\ pathParamsSchema(handlers[i].params)) =>
            IF LiveEntry(cache, CacheKeyOf(handlers[i].params), now) # NoValue
            THEN /\ handlers'[i].pc = "responded"
                 /\ handlers'[i].status = 200
                 /\ handlers'[i].body =
                        LiveEntry(cache, CacheKeyOf(handlers[i].params), now)
                 /\ handlers'[i].scans = 0
            ELSE /\ handlers'[i].pc = "scanning"
                 /\ handlers'[i].scans = 1

\* an entry enters the cache only when a scan succeeded, under the key of
\* its request and with its response
StoredOnlyAfterSuccess ==
    \A e \in Entries(cache') \ Entries(cache) :
        \E i \in DOMAIN handlers :
            /\ ScanEnds(i)
            /\ handlers'[i].status = 200
            /\ handlers'[i].body = e.value
            /\ CacheKeyOf(handlers[i].params) = e.key

\* a scan that fails leaves the cache unchanged
FailureLeavesCache ==
    \A i \in DOMAIN handlers :
        (ScanEnds(i) /\ handlers'[i].status # 200) => cache' = cache

\* every response served as a hit is the response of a scan that completed
\* for the same owner, repo and package
HitsAreCompletedScans ==
    \A i \in Answered :
        handlers[i].xcache = "HIT" =>
            /\ handlers[i].status = 200
            /\ [params |-> handlers[i].params, response |-> handlers[i].body]
                    \in completed

\* C36: a request whose key has a live cache entry returns that entry and
\* starts no repository scan; a request whose key has none scans and stores
\* the response under its key only after the scan has succeeded; a scan that
\* fails leaves the cache unchanged; and in any interleaving of concurrent
\* requests every response served as a hit equals the response of some scan
\* that completed for the same owner, repo and package.
C36_CacheServesCompletedScans ==
    [][mode = "route" =>
        /\ LookupServesLiveEntry
        /\ StoredOnlyAfterSuccess
        /\ FailureLeavesCache
        /\ HitsAreCompletedScans']_vars

\* C36 witness: the second request missed, scanned and stored its response;
\* the first, for the same package, was then served that response as a hit
C36_Witness ==
    /\ mode = "route"
    /\ handlers[1].pc = "responded" /\ handlers[1].xcache = "HIT"
    /\ handlers[2].pc = "responded" /\ handlers[2].xcache = "MISS"
    /\ handlers[2].status = 200
    /\ handlers[1].body = handlers[2].body

-----------------------------------------------------------------------------
(* Block tracking of the npm extractor *)

\* the offset in text of the first character of line n of ls
RECURSIVE LineStart(_, _)
LineStart(ls, n) ==
    IF n <= 1 THEN 1 ELSE LineStart(ls, n - 1) + Len(ls[n - 1]) + 1

\* the number of the line of ls that starts at offset off, 0 if none does
LineAt(ls, off) ==
    IF \E n \in 1..Len(ls) : LineStart(ls, n) = off
    THEN CHOOSE n \in 1..Len(ls) : LineStart(ls, n) = off
    ELSE 0

\* the line contains the quoted package name
NamesPackage(l, p) ==
    includes(l, "\"node_modules/" \o p \o "\"") \/ includes(l, "\"" \o p \o "\"")

\* the package block of p over the lines of a whole text: whether line n is
\* inside a block (inside), whether the block is still open after it (open)
\* and the depth tracked on it
RECURSIVE NpmBlock(_, _, _)
NpmBlock(ls, p, n) ==
    IF n = 0 THEN [inside |-> FALSE, open |-> FALSE, depth |-> 0]
    ELSE LET before == NpmBlock(ls, p, n - 1)
             inside == before.open \/ NamesPackage(ls[n], p)
             depth == IF ~inside THEN before.depth
                      ELSE (IF NamesPackage(ls[n], p) THEN 0 ELSE before.depth)
                           + CountChar(ls[n], "{") - CountChar(ls[n], "}")
         IN [inside |-> inside,
             open |-> inside /\ ~(depth <= 0 /\ includes(ls[n], "}")),
             depth |-> depth]

\* C32: the npm extractor yields a version only while it is inside a package
\* block, that is on a line at or after a line containing the quoted package
\* name and not after the line that closed that block (tracked depth <= 0 on
\* a line containing a closing brace); once the block has closed, the
\* version lines of the blocks of other packages that follow are not yielded
\* until a line again contains the quoted package name.
C32_NpmYieldsOnlyInsideBlock ==
    (mode = "lock" /\ kind = "npm") =>
        \A n \in 1..Len(out) :
            /\ LineAt(split(text), outAt[n]) # 0
            /\ NpmBlock(split(text), packageName,
                        LineAt(split(text), outAt[n])).inside

\* C32 witness: the block of the package closed on its own line, a version
\* line of another block followed, and the whole stream gave one match
C32_Witness ==
    /\ Exhausted /\ kind = "npm"
    /\ Len(out) = 1
    /\ Len(split(text)) >= 3
    /\ NpmBlock(split(text), packageName, 1).inside
    /\ ~NpmBlock(split(text), packageName, 1).open
    /\ NpmVersionMatch(split(text)[3]).found
    /\ ~NpmBlock(split(text), packageName, 3).inside

-----------------------------------------------------------------------------
(* Block tracking of the yarn v1 extractor *)

\* the line is a header of the package
YarnHeaderLine(l, p) ==
    startsWith(l, p \o "@") \/ includes(l, "\"" \o p \o "@")

\* the line is blank or unindented
EndsYarnBlock(l) ==
    trim(l) = "" \/ (~startsWith(l, " ") /\ ~startsWith(l, "\t"))

\* the block of p over the lines of a whole text, as the claim describes
\* it: opened by a header line, which does not close it, and closed by a
\* match or by the first blank or unindented line after the header line
RECURSIVE YarnBlock(_, _, _)
YarnBlock(ls, p, n) ==
    IF n = 0 THEN [inside |-> FALSE, open |-> FALSE]
    ELSE LET inside == YarnBlock(ls, p, n - 1).open \/ YarnHeaderLine(ls[n], p)
         IN [inside |-> inside,
             open |-> /\ inside
                      /\ ~YarnVersionMatch(ls[n]).found
                      /\ (YarnHeaderLine(ls[n], p) \/ ~EndsYarnBlock(ls[n]))]

\* the generator has run the loop body on the variable line to its end
LineProcessed ==
    pc \in {"read", "done"} /\ lines = <<>> /\ phase = "top"

\* C33: the yarn v1 extractor yields at most one match per detected header;
\* a block opened by a header is closed by the first blank line or
\* unindented line that follows the header line, so that no version line of
\* a later, unrelated entry is yielded; and the header line itself does not
\* close the block it opens.
C33_YarnBlockClosedAfterHeader ==
    (mode = "lock" /\ kind = "yarn") =>
        /\ Len(out) <= Cardinality({ n \in 1..Len(split(text)) :
                            YarnHeaderLine(split(text)[n], packageName) })
        /\ \A n \in 1..Len(out) :
                YarnBlock(split(text), packageName,
                          LineAt(split(text), outAt[n])).inside
        /\ (LineProcessed /\ YarnHeaderLine(line, packageName)
                /\ ~YarnVersionMatch(line).found)
                => inPackageBlock

-----------------------------------------------------------------------------
(* The path-style keys of pnpm-lock.yaml *)

\* the number of lines of a stream of keys
MaxKeyLines == 2

\* target packages: plain, scoped, and one with a dot in its name
PnpmTargets == {"ab", "@s/ab", "a.b"}

\* the names that differ from p in exactly one character
OneCharacterOff(p) ==
    { SubSeq(p, 1, i - 1) \o "x" \o SubSeq(p, i + 1, Len(p)) : i \in 1..Len(p) }

\* the names of the keys of a stream: the target, a name that starts with
\* it, the names one character off, and an unrelated one
KeyNames(p) == {p, p \o "c", "cd"} \cup OneCharacterOff(p)

\* the key of package q at version v, as pnpm writes it
KeyLine(q, v) == "  /" \o q \o "/" \o v \o ":"

KeyVersions == {"1.2.3", "10.0.21"}

KeyLines(p) == { KeyLine(q, v) : q \in KeyNames(p), v \in KeyVersions }

KeyTexts(p) ==
    { Join(ls) \o nl :
        ls \in UNION { [1..n -> KeyLines(p)] : n \in 1..MaxKeyLines },
        nl \in {"", "\n"} }

\* findInPnpmLock is called on a stream of keys
PnpmKeysInit ==
    /\ mode = "lock"
    /\ kind = "pnpm"
    /\ packageName \in PnpmTargets
    /\ text \in KeyTexts(packageName)
    /\ rest = text
    /\ reader = "none"
    /\ releases = 0
    /\ readsAfterRelease = 0
    /\ buffer = ""
    /\ lineNumber = InitialLineNumber(kind)
    /\ inPackageBlock = FALSE
    /\ bracketDepth = 0
    /\ lines = <<>>
    /\ line = ""
    /\ phase = "top"
    /\ nextOff = 1
    /\ pc = "start"
    /\ out = <<>>
    /\ outAt = <<>>
    /\ ManifestIdle
    /\ ScanIdle
    /\ CollectorIdle
    /\ CacheIdle
    /\ KeyIdle
    /\ RouteIdle

SpecPnpmKeys == PnpmKeysInit /\ [][LockNext]_vars

\* line n of the stream is terminated by a newline
Terminated(n) == n < Len(split(text))

\* C34: for an indented line of the form /<pkg>/<X.Y.Z>: (also for a scoped
\* <pkg>) the path-style strategy of the pnpm extractor yields one match
\* whose version is X.Y.Z at that line, and it yields nothing for a key
\* that names a different package, including one whose name only starts
\* with, or differs in one character from, the target name.
C34_PnpmPathKeyOfTargetOnly ==
    (Exhausted /\ kind = "pnpm") =>
        \A n \in 1..Len(split(text)) :
            \A q \in KeyNames(packageName), v \in KeyVersions :
                (Terminated(n) /\ split(text)[n] = KeyLine(q, v)) =>
                    IF q = packageName
                    THEN /\ Cardinality(MatchesOnLine(n)) = 1
                         /\ \A m \in MatchesOnLine(n) :
                                out[m] = [version |-> v, lineNumber |-> n]
                    ELSE MatchesOnLine(n) = {}

-----------------------------------------------------------------------------
(* Termination of the extractors.  The stream is finite and delivers every
   read, and the consumer, the for await of parseLockfile, asks for the next
   match until the generator is done. *)

DrainNext ==
    \/ Start
    \/ StartNoBody
    \/ ReadChunk
    \/ ReadDone
    \/ Resume

\* the generator awaits a read or its consumer: exactly the states in which
\* a step of ReadChunk, ReadDone or Resume that changes the state is possible
Awaiting == pc \in {"read", "yield"}

\* weak fairness of the reads and resumptions, WF_vars(ReadChunk \/ ReadDone
\* \/ Resume), with the enabling condition written as the state predicate
\* Awaiting
ReadsAndResumptionsHappen ==
    []<>(~Awaiting) \/ []<><<ReadChunk \/ ReadDone \/ Resume>>_vars

SpecLockDrain ==
    /\ LockInit /\ [][DrainNext]_vars
    /\ WF_vars(Start \/ StartNoBody)
    /\ ReadsAndResumptionsHappen

\* C35: for every finite stream of lines (malformed, truncated or empty) and
\* for a response without a body, each of the four extractors terminates
\* after finitely many yields and raises no error; with no body it yields
\* nothing and acquires no reader.
C35_ExtractorsTerminate ==
    <>(/\ mode = "lock" /\ pc = "done"
       /\ Len(out) <= 2 * Len(split(text))
       /\ releases = 0 => (reader = "none" /\ out = <<>>))

\* C35 witness: a yarn stream that starts with an empty line was read to its
\* end, with a yield on the way
C35_Witness ==
    /\ Exhausted /\ kind = "yarn"
    /\ Len(out) >= 1
    /\ startsWith(text, "\n")

\* C35 witness: a response without a body
C35_WitnessNoBody ==
    mode = "lock" /\ pc = "done" /\ reader = "none" /\ text # ""

-----------------------------------------------------------------------------
(* Order of the steps of scanRepository *)

\* the calls that resolve the commit, in the order the claim gives
Resolution ==
    IF branchParam = ""
    THEN <<Call("getDefaultBranch", ""), Call("getCommitSha", DefaultBranch)>>
    ELSE <<Call("getCommitSha", branchParam)>>

\* the commit of the branch scanned
ResolvedSha == ShaOf(IF branchParam = "" THEN DefaultBranch ELSE branchParam)

\* the expected calls up to the tree
Preamble == Append(Resolution, Call("getTree", ResolvedSha))

\* the positions of calls that fetch a file
FileCalls == { n \in 1..Len(calls) : calls[n].fn = "getRawFileContent" }

\* the blob entries of the tree classified as manifest or lockfile
FilesOfInterest ==
    { tree[n].path : n \in { m \in 1..Len(tree) :
            /\ tree[m].type = "blob"
            /\ (isManifestFile(tree[m].path) \/ isLockfile(tree[m].path)) } }

\* C37: the commit SHA is resolved first (through the default branch when no
\* branch is given), then the tree of that SHA is fetched, and only
\* afterwards file contents; the files fetched are exactly the blob entries
\* of the tree classified as manifest or lockfile, each fetched at most once
\* and at the resolved SHA; a failure while resolving the SHA or fetching
\* the tree ends the scan with that error and no file is fetched.
C37_ScanStepsInOrder ==
    mode = "scan" =>
        /\ \A n \in 1..Len(calls) :
                IF n <= Len(Preamble) THEN calls[n] = Preamble[n]
                ELSE /\ calls[n].fn = "getRawFileContent"
                     /\ calls[n].sha = ResolvedSha
                     /\ calls[n].arg \in FilesOfInterest
        /\ \A m, n \in FileCalls : calls[m].arg = calls[n].arg => m = n
        /\ pc = "returned" => { calls[n].arg : n \in FileCalls } = FilesOfInterest
        /\ pc = "failed" => (FileCalls = {} /\ Len(calls) <= Len(Preamble))
        /\ (Len(calls) >= Len(Resolution) /\ pc # "failed")
                => commitSha = ResolvedSha

\* C37 witness: a scan of the default branch returned after it fetched
\* two manifests and two lockfiles
C37_Witness ==
    /\ ScanReturned /\ branchParam = ""
    /\ Cardinality(FileCalls) = 4
    /\ Len(calls) = 7

\* C37 witness: the tree could not be fetched
C37_WitnessTreeFails ==
    mode = "scan" /\ pc = "failed" /\ Len(calls) = Len(Preamble)

-----------------------------------------------------------------------------
(* Order of the records scanRepository returns *)

\* the line number a lineUrl ends with
LineOfUrl(url) == DecimalValue(url, indexOf(url, "#L") + 2, 0)

\* the position of path in the tree
TreeIndex(path) == CHOOSE n \in 1..Len(tree) : tree[n].path = path

\* C38: in the sequence scanRepository returns, every manifest record
\* precedes every lockfile record; files of the same kind appear in the
\* order of the repository tree; and the records of one lockfile appear in
\* non-decreasing line-number order.
C38_RecordsInScanOrder ==
    ScanReturned =>
        \A i, j \in 1..Len(scanSources) :
            i < j =>
                /\ ~(scanSources[i].type = "lockfile"
                        /\ scanSources[j].type = "manifest")
                /\ scanSources[i].type = scanSources[j].type
                        => TreeIndex(scanSources[i].path)
                                <= TreeIndex(scanSources[j].path)
                /\ (scanSources[i].type = "lockfile"
                        /\ scanSources[i].path = scanSources[j].path)
                        => LineOfUrl(scanSources[i].lineUrl)
                                <= LineOfUrl(scanSources[j].lineUrl)

\* C38 witness: the scan returned records of two manifests and of two
\* lockfiles, three of them from lines 1, 1 and 2 of one lockfile
C38_Witness ==
    /\ ScanReturned
    /\ Cardinality({ scanSources[i].path : i \in 1..Len(scanSources) }) = 4
    /\ \E i \in 1..Len(scanSources) :
            /\ i + 2 <= Len(scanSources)
            /\ scanSources[i].path = "pnpm-lock.yaml"
            /\ scanSources[i + 2].path = "pnpm-lock.yaml"
            /\ LineOfUrl(scanSources[i].lineUrl) = 1
            /\ LineOfUrl(scanSources[i + 1].lineUrl) = 1
            /\ LineOfUrl(scanSources[i + 2].lineUrl) = 2

-----------------------------------------------------------------------------
(* Canonical form of the versions held *)

\* every version getVersions or getAllVersions returns
Held ==
    UNION { Range(getVersions(versions, k)) : k \in DOMAIN versions }
        \cup Range(getAllVersions(versions))

\* the string starts or ends with a quote
SurroundingQuote(v) ==
    Len(v) > 0 /\ (IsQuote(CharAt(v, 1)) \/ IsQuote(CharAt(v, Len(v))))

\* the string starts or ends with whitespace
OuterWhitespace(v) ==
    Len(v) > 0 /\ (IsSpace(CharAt(v, 1)) \/ IsSpace(CharAt(v, Len(v))))

====
